---------------------------- MODULE Spec2Model ----------------------------
(***************************************************************************)
(* A model of the outfit-to-products pipeline of search_recommendation.py: *)
(* the parallel shopping searcher, the result cleaner with its per-product *)
(* normalisation, the item-type classifier, the query extraction and its   *)
(* redo, the page scraper, alone and in parallel, and the orchestrator;    *)
(* with it the storing of a conversation context as JSON and the           *)
(* collections of a user (app.py, database_service.py).                    *)
(*                                                                         *)
(* Conventions.  A Python dict is a record that has every key the code     *)
(* reads; a key the dict does not have holds Absent, a key bound to None   *)
(* holds Null, and every other value carries its Python type as a tag:     *)
(* Num(n), Str(s), List(l), Other.  Text is a TLA+ string, taken apart     *)
(* with Len and SubSeq where the code inspects it.  Money is counted in    *)
(* cents, ratings and review counts in hundredths, so that every number    *)
(* is an integer.                                                          *)
(***************************************************************************)
EXTENDS Integers, Sequences, FiniteSets, TLC

Absent  == [k |-> "absent"]
Null    == [k |-> "none"]
Num(n)  == [k |-> "num", v |-> n]
Str(s)  == [k |-> "str", v |-> s]
List(l) == [k |-> "list", v |-> l]
Other   == [k |-> "other"]

(***************************************************************************)
(* Bounds of the model.                                                    *)
(***************************************************************************)
MaxQueries == 3
MaxResults == 2
MaxPrefix  == 2

VARIABLES
  \* ---- parallel shopping searcher (search_items_parallel) ----
  SERPAPI_KEY,      \* TRUE iff the module-level API key is configured
  queries,          \* the list handed to search_items_parallel
  submitted,        \* number of queries already submitted to the executor
  future_state,     \* per future: "pending", "running" or "done"
  future_result,    \* per future: the value search_shopping_item returned
  api_outcome,      \* per future: what the shopping API did (for the claims)
  yielded,          \* futures as_completed has already handed out
  results,          \* the list search_items_parallel builds
  search_pc,        \* "submitting", "collecting" or "returned"
  \* ---- per-product cleaning (clean_single_product) ----
  prod_raw,         \* one entry of a shopping_results list
  prod_cleaned,     \* what clean_single_product returned for it
  prod_pc,          \* "raw" or "cleaned"
  \* ---- result cleaner and direct-link stage ----
  raw_search_results,  \* the list handed to clean_search_results_for_frontend
  cleaned_data,        \* the cleaned structure, None before cleaning
  clean_pc,            \* "raw", "cleaned" or "linked"
  scraping_results,    \* what the scraping of the direct-link stage did
  \* ---- item-type classifier (extract_item_type_from_query) ----
  cl_prefix,        \* the pieces of the query before the item noun
  cl_noun,          \* the item noun: an index of NounForms
  cl_plural_type,   \* the token for the query with the plural noun, "" before
  cl_singular_type, \* the token for the query with the singular noun, "" before
  \* ---- query extraction and redo ----
  ex_image,         \* image_path handed to create_search_query_gemini
  ex_mode,          \* return_conversation
  ex_chain,         \* what the extraction and each redo after it returned
  ex_calls,         \* per call: what the model API did, and whether it was called
  \* ---- scraping one aggregator page (scrape_single_url) ----
  sc_max_retries,   \* max_retries
  sc_result,        \* the result dict of scrape_single_url
  sc_fetches,       \* what each fetch of the URL did, in order
  sc_pc,            \* "looping" or "returned"
  \* ---- scraping many pages in parallel (parallel_scrape_google_products) ----
  ps_urls,          \* urls
  ps_futures,       \* per URL: None while its worker runs, then its result
  ps_collected,     \* the futures as_completed has handed out
  ps_results,       \* results: successful, failed and stats
  ps_pc,            \* "collecting", "returned" or "raised"
  \* ---- the orchestrator (outfit_recommendation_with_cleaned_data) ----
  pl_args,          \* the arguments of the run
  pl_trace,         \* the stages entered so far, in order
  pl_queries,       \* search_queries: a list, or the error dict of stage 1
  pl_context,       \* conversation_context
  pl_result,        \* result
  pl_cleaned,       \* cleaned_data
  pl_failures,      \* what failed after stage 1 (for the claims)
  pl_log,           \* the messages to the progress hook and the calls, in order
  pl_search_results,   \* search_results of outfit_recommendation_with_redo
  \* ---- the collections of one user (app.py, database_service.py) ----
  collections,      \* the rows of user_collections of the user
  coll_next_id,     \* the id the next row gets
  saved_items       \* the products in user_saved_items of the user

searchVars == <<SERPAPI_KEY, queries, submitted, future_state, future_result,
                api_outcome, yielded, results, search_pc>>
prodVars   == <<prod_raw, prod_cleaned, prod_pc>>
cleanVars  == <<raw_search_results, cleaned_data, clean_pc, scraping_results>>
classVars  == <<cl_prefix, cl_noun, cl_plural_type, cl_singular_type>>

extractVars == <<ex_image, ex_mode, ex_chain, ex_calls>>
scrapeVars  == <<sc_max_retries, sc_result, sc_fetches, sc_pc>>
batchVars   == <<ps_urls, ps_futures, ps_collected, ps_results, ps_pc>>
pipeVars    == <<pl_args, pl_trace, pl_queries, pl_context, pl_result,
                 pl_cleaned, pl_failures, pl_log, pl_search_results>>
collVars    == <<collections, coll_next_id, saved_items>>

\* The components of the searcher, the cleaners and the classifier, and
\* those of the extraction, the scrapers and the orchestrator.
coreVars  == <<searchVars, prodVars, cleanVars, classVars>>
stageVars == <<extractVars, scrapeVars, batchVars, pipeVars, collVars>>

vars == <<coreVars, stageVars>>

(***************************************************************************)
(* Item-type classifier (extract_item_type_from_query)                     *)
(***************************************************************************)
\* pattern in text (Python's substring test).
Contains(text, pattern) ==
  \E i \in 1..(Len(text) - Len(pattern) + 1) :
    SubSeq(text, i, i + Len(pattern) - 1) = pattern

UpperCase == "ABCDEFGHIJKLMNOPQRSTUVWXYZ"
LowerCase == "abcdefghijklmnopqrstuvwxyz"

\* str.lower() on one character.
LowerChar(c) ==
  IF \E i \in 1..26 : SubSeq(UpperCase, i, i) = c
    THEN LET i == CHOOSE i \in 1..26 : SubSeq(UpperCase, i, i) = c
         IN  SubSeq(LowerCase, i, i)
    ELSE c

RECURSIVE Lower(_)
Lower(s) ==
  IF s = "" THEN ""
  ELSE LowerChar(SubSeq(s, 1, 1)) \o Lower(SubSeq(s, 2, Len(s)))

\* str.strip(): leading and trailing blanks removed.
RECURSIVE Strip(_)
Strip(s) ==
  IF s = "" THEN ""
  ELSE IF SubSeq(s, 1, 1) = " " THEN Strip(SubSeq(s, 2, Len(s)))
  ELSE IF SubSeq(s, Len(s), Len(s)) = " " THEN Strip(SubSeq(s, 1, Len(s) - 1))
  ELSE s

\* str.split(): the maximal blank-free pieces, in order.
RECURSIVE Split(_)
Split(s) ==
  IF s = "" THEN <<>>
  ELSE IF SubSeq(s, 1, 1) = " " THEN Split(SubSeq(s, 2, Len(s)))
  ELSE LET ends == {i \in 1..Len(s) : SubSeq(s, i, i) = " "}
           n    == IF ends = {} THEN Len(s) + 1
                   ELSE CHOOSE i \in ends : \A j \in ends : i <= j
       IN  <<SubSeq(s, 1, n - 1)>> \o Split(SubSeq(s, n, Len(s)))

\* The characters re.sub(r'[^\w\s-]', '', word) keeps.
KeptChars == LowerCase \o UpperCase \o "0123456789_- "

RECURSIVE RemovePunctuation(_)
RemovePunctuation(word) ==
  IF word = "" THEN ""
  ELSE (IF Contains(KeptChars, SubSeq(word, 1, 1)) THEN SubSeq(word, 1, 1) ELSE "")
         \o RemovePunctuation(SubSeq(word, 2, Len(word)))

multi_word_patterns ==
  <<
    <<"tank top", "tank_top">>, <<"tube top", "tube_top">>,
    <<"crop top", "crop_top">>, <<"halter top", "halter_top">>,
    <<"mock neck", "turtleneck">>, <<"cowl neck", "sweater">>,
    <<"v-neck", "shirt">>, <<"crew neck", "shirt">>,
    <<"crewneck", "shirt">>, <<"leather jacket", "leather_jacket">>,
    <<"denim jacket", "denim_jacket">>, <<"jean jacket", "denim_jacket">>,
    <<"bomber jacket", "bomber_jacket">>,
    <<"puffer jacket", "puffer_jacket">>,
    <<"down jacket", "puffer_jacket">>, <<"track jacket", "track_jacket">>,
    <<"varsity jacket", "varsity_jacket">>, <<"rain jacket", "raincoat">>,
    <<"trench coat", "trench_coat">>, <<"pea coat", "peacoat">>,
    <<"duffle coat", "coat">>, <<"cargo pants", "cargo_pants">>,
    <<"cargo shorts", "cargo_shorts">>, <<"yoga pants", "yoga_pants">>,
    <<"track pants", "track_pants">>, <<"sweat pants", "sweatpants">>,
    <<"palazzo pants", "palazzo_pants">>,
    <<"wide leg pants", "wide_leg_pants">>,
    <<"straight leg pants", "pants">>, <<"skinny jeans", "skinny_jeans">>,
    <<"slim jeans", "jeans">>, <<"boyfriend jeans", "jeans">>,
    <<"mom jeans", "jeans">>, <<"bootcut jeans", "jeans">>,
    <<"bermuda shorts", "bermuda_shorts">>,
    <<"board shorts", "board_shorts">>, <<"bike shorts", "bike_shorts">>,
    <<"cycling shorts", "bike_shorts">>,
    <<"running shorts", "athletic_shorts">>,
    <<"athletic shorts", "athletic_shorts">>,
    <<"denim shorts", "denim_shorts">>, <<"jean shorts", "denim_shorts">>,
    <<"pencil skirt", "pencil_skirt">>, <<"a-line skirt", "a_line_skirt">>,
    <<"a line skirt", "a_line_skirt">>, <<"circle skirt", "circle_skirt">>,
    <<"pleated skirt", "pleated_skirt">>, <<"wrap skirt", "wrap_skirt">>,
    <<"mini skirt", "mini_skirt">>, <<"midi skirt", "midi_skirt">>,
    <<"maxi skirt", "maxi_skirt">>, <<"cocktail dress", "cocktail_dress">>,
    <<"evening dress", "evening_dress">>, <<"ball gown", "gown">>,
    <<"sheath dress", "sheath_dress">>, <<"shift dress", "shift_dress">>,
    <<"wrap dress", "wrap_dress">>, <<"shirt dress", "shirt_dress">>,
    <<"sweater dress", "sweater_dress">>,
    <<"jumper dress", "jumper_dress">>, <<"slip dress", "slip_dress">>,
    <<"bodycon dress", "bodycon_dress">>,
    <<"fit and flare dress", "fit_and_flare_dress">>,
    <<"a-line dress", "a_line_dress">>, <<"a line dress", "a_line_dress">>,
    <<"maxi dress", "maxi_dress">>, <<"midi dress", "midi_dress">>,
    <<"mini dress", "mini_dress">>, <<"sun dress", "sundress">>,
    <<"dress shirt", "dress_shirt">>, <<"button down", "button_down">>,
    <<"button up", "button_down">>, <<"oxford shirt", "oxford_shirt">>,
    <<"polo shirt", "polo">>, <<"rugby shirt", "rugby_shirt">>,
    <<"sports bra", "sports_bra">>,
    <<"compression shirt", "compression_shirt">>,
    <<"rash guard", "rashguard">>, <<"swim trunks", "swim_trunks">>,
    <<"swim shorts", "swim_shorts">>, <<"bathing suit", "swimsuit">>,
    <<"swimming costume", "swimsuit">>,
    <<"running shoes", "running_shoes">>, <<"tennis shoes", "sneakers">>,
    <<"athletic shoes", "sneakers">>, <<"high tops", "high_tops">>,
    <<"low tops", "sneakers">>, <<"high heels", "heels">>,
    <<"kitten heels", "heels">>, <<"block heels", "heels">>,
    <<"ankle boots", "ankle_boots">>,
    <<"knee high boots", "knee_high_boots">>,
    <<"over the knee boots", "over_knee_boots">>,
    <<"thigh high boots", "thigh_high_boots">>,
    <<"cowboy boots", "cowboy_boots">>, <<"combat boots", "combat_boots">>,
    <<"work boots", "work_boots">>, <<"hiking boots", "hiking_boots">>,
    <<"rain boots", "rain_boots">>, <<"snow boots", "snow_boots">>,
    <<"chelsea boots", "chelsea_boots">>,
    <<"desert boots", "desert_boots">>, <<"chukka boots", "chukka_boots">>,
    <<"ugg boots", "uggs">>, <<"boat shoes", "boat_shoes">>,
    <<"deck shoes", "boat_shoes">>, <<"driving shoes", "loafers">>,
    <<"penny loafers", "loafers">>, <<"ballet flats", "flats">>,
    <<"flip flops", "flip_flops">>, <<"gladiator sandals", "sandals">>,
    <<"baseball cap", "baseball_cap">>, <<"trucker hat", "trucker_hat">>,
    <<"bucket hat", "bucket_hat">>, <<"sun hat", "sun_hat">>,
    <<"winter hat", "beanie">>, <<"knit hat", "beanie">>,
    <<"bow tie", "bow_tie">>, <<"fanny pack", "fanny_pack">>,
    <<"waist pack", "fanny_pack">>, <<"belt bag", "belt_bag">>,
    <<"cross body bag", "crossbody_bag">>,
    <<"crossbody bag", "crossbody_bag">>,
    <<"shoulder bag", "shoulder_bag">>, <<"tote bag", "tote">>,
    <<"messenger bag", "messenger_bag">>,
    <<"boxer briefs", "boxer_briefs">>, <<"sports bra", "sports_bra">>,
    <<"boy shorts", "boyshorts">>, <<"one piece", "bodysuit">>,
    <<"two piece", "bikini">>
  >>

clothing_items ==
  <<
    "parka", "anorak", "windbreaker", "raincoat", "peacoat", "overcoat",
    "blazer", "puffer", "bomber", "varsity", "mackintosh", "slicker",
    "hoodie", "hoody", "sweatshirt", "sweater", "jumper", "pullover",
    "cardigan", "cardi", "shrug", "bolero", "turtleneck", "henley", "polo",
    "tunic", "camisole", "cami", "blouse", "bodysuit", "leotard",
    "unitard", "jersey", "fleece", "thermal", "rashguard", "dress", "gown",
    "sundress", "pinafore", "smock", "frock", "jumpsuit", "romper",
    "playsuit", "onesie", "catsuit", "coveralls", "overalls", "dungarees",
    "shortalls", "jeans", "denim", "chinos", "khakis", "corduroys",
    "cords", "culottes", "gauchos", "joggers", "sweatpants", "sweats",
    "leggings", "tights", "jeggings", "treggings", "capris", "trousers",
    "slacks", "britches", "knickers", "shorts", "bermudas", "jorts",
    "cutoffs", "skirt", "kilt", "sarong", "tutu", "petticoat", "underwear",
    "panties", "briefs", "boxers", "thong", "boyshorts", "bra",
    "brassiere", "bralette", "bustier", "corset", "basque", "slip",
    "chemise", "teddy", "negligee", "lingerie", "pajamas", "pyjamas",
    "pjs", "nightgown", "nightie", "nightshirt", "robe", "bathrobe",
    "housecoat", "dressing gown", "swimsuit", "bikini", "tankini",
    "monokini", "wetsuit", "swimwear", "shoes", "sneakers", "trainers",
    "runners", "kicks", "boots", "booties", "wellies", "uggs",
    "wellingtons", "heels", "stilettos", "pumps", "platforms", "wedges",
    "flats", "espadrilles", "mules", "clogs", "slides", "sandals",
    "flip-flops", "thongs", "huaraches", "birkenstocks", "loafers",
    "moccasins", "oxfords", "brogues", "derbies", "cleats", "spikes",
    "hat", "cap", "beanie", "beret", "fedora", "trilby", "panama",
    "bowler", "sombrero", "fascinator", "headband", "headscarf", "turban",
    "visor", "snapback", "stetson", "scarf", "tie", "necktie", "ascot",
    "cravat", "bandana", "gloves", "mittens", "gauntlets", "belt", "sash",
    "cummerbund", "suspenders", "braces", "bag", "purse", "handbag",
    "clutch", "wristlet", "wallet", "backpack", "rucksack", "satchel",
    "tote", "briefcase", "sari", "saree", "kimono", "yukata", "cheongsam",
    "qipao", "dirndl", "lederhosen", "poncho", "serape", "dashiki",
    "kaftan", "thobe", "abaya", "hijab", "burqa", "niqab", "dhoti",
    "lungi", "hanbok", "kente", "suit", "tuxedo", "tux", "waistcoat",
    "vest", "gilet", "jacket", "coat", "top", "shirt", "pants", "garment",
    "apparel"
  >>

irregular_plurals ==
  <<
    <<"scarves", "scarf">>, <<"gloves", "glove">>,
    <<"clothes", "clothing">>, <<"jeans", "jeans">>, <<"pants", "pants">>,
    <<"shorts", "shorts">>, <<"tights", "tights">>,
    <<"glasses", "glasses">>
  >>

gender_markers ==
  {
    "women's", "womens", "men's", "mens", "girls", "boys", "ladies",
    "unisex", "kids", "children's", "childrens"
  }

modifiers ==
  {
    "vintage", "casual", "formal", "summer", "winter", "spring", "fall",
    "designer", "luxury", "cheap", "discount", "new", "used", "small",
    "medium", "large", "xl", "xxl", "plus", "size", "petite", "tall"
  }

clothing_indicators ==
  {
    "wear", "outfit", "apparel", "garment", "attire", "clothing", "fashion"
  }

NoMatch == ""

InClothingItems(word) ==
  \E i \in 1..Len(clothing_items) : clothing_items[i] = word

\* The least element of a non-empty set of indices: the first hit of a scan.
First(hits) == CHOOSE i \in hits : \A j \in hits : i <= j

\* Stage 1: the first table phrase contained in the query decides.
MatchMultiWord(query_lower) ==
  LET hits == {i \in 1..Len(multi_word_patterns) :
                 Contains(query_lower, multi_word_patterns[i][1])}
  IN  IF hits = {} THEN NoMatch ELSE multi_word_patterns[First(hits)][2]

\* Stage 2, one word: exact match, regular plural, irregular plural.
MatchWord(word) ==
  LET clean_word == RemovePunctuation(word)
      n          == Len(clean_word)
  IN  IF InClothingItems(clean_word) THEN clean_word
      ELSE IF /\ n > 0
              /\ SubSeq(clean_word, n, n) = "s"
              /\ InClothingItems(SubSeq(clean_word, 1, n - 1))
        THEN SubSeq(clean_word, 1, n - 1)
      ELSE LET hits == {k \in 1..Len(irregular_plurals) :
                          irregular_plurals[k][1] = clean_word}
           IN  IF hits = {} THEN NoMatch
               ELSE irregular_plurals[First(hits)][2]

\* Stage 2: the first word of the query that matches decides.
MatchWords(words) ==
  LET hits == {i \in 1..Len(words) : MatchWord(words[i]) # NoMatch}
  IN  IF hits = {} THEN NoMatch ELSE MatchWord(words[First(hits)])

\* Stage 3: the first vocabulary word contained anywhere in the query.
MatchCompound(query_lower) ==
  LET hits == {i \in 1..Len(clothing_items) :
                 Contains(query_lower, clothing_items[i])}
  IN  IF hits = {} THEN NoMatch ELSE clothing_items[First(hits)]

\* Stage 4, for the gender marker at position i (counted from 1).
MatchAfterGender(words, i) ==
  IF words[i] \in gender_markers /\ i < Len(words)
    THEN LET rest == {j \in (i + 1)..Len(words) : words[j] \notin modifiers}
         IN  IF rest = {} THEN NoMatch
             ELSE LET potential_item == words[First(rest)]
                      n == Len(potential_item)
                  IN  IF InClothingItems(potential_item) THEN potential_item
                      ELSE IF /\ SubSeq(potential_item, n, n) = "s"
                              /\ InClothingItems(SubSeq(potential_item, 1, n - 1))
                        THEN SubSeq(potential_item, 1, n - 1)
                      ELSE NoMatch
    ELSE NoMatch

\* Stage 4: the first gender marker whose following word matches decides.
MatchGender(words) ==
  LET hits == {i \in 1..Len(words) : MatchAfterGender(words, i) # NoMatch}
  IN  IF hits = {} THEN NoMatch ELSE MatchAfterGender(words, First(hits))

\* A classifier that tries the single words before the multi-word table.
extract_item_type_from_query_words_first(query) ==
  IF query = "" THEN "unknown"
  ELSE LET query_lower == Strip(Lower(query))
           words       == Split(query_lower)
       IN  IF MatchWords(words) # NoMatch
             THEN MatchWords(words)
           ELSE IF MatchMultiWord(query_lower) # NoMatch
             THEN MatchMultiWord(query_lower)
           ELSE "clothing"

extract_item_type_from_query(query) ==
  IF query = "" THEN "unknown"
  ELSE LET query_lower == Strip(Lower(query))
           words       == Split(query_lower)
       IN  IF MatchMultiWord(query_lower) # NoMatch
             THEN MatchMultiWord(query_lower)
           ELSE IF MatchWords(words) # NoMatch
             THEN MatchWords(words)
           ELSE IF MatchCompound(query_lower) # NoMatch
             THEN MatchCompound(query_lower)
           ELSE IF MatchGender(words) # NoMatch
             THEN MatchGender(words)
           ELSE IF \E w \in clothing_indicators : Contains(query_lower, w)
             THEN "clothing"
           ELSE "clothing"

(***************************************************************************)
(* Per-product cleaning (clean_single_product and its helpers)             *)
(***************************************************************************)
\* dict.get(key): None for a key the dict does not have.
Get(v) == IF v = Absent THEN Null ELSE v

\* dict.get(key, default).
GetOr(v, default) == IF v = Absent THEN default ELSE v

\* Python's truth value of an object.
Truthy(v) ==
  CASE v.k = "absent" -> FALSE
    [] v.k = "none"   -> FALSE
    [] v.k = "num"    -> v.v # 0
    [] v.k = "str"    -> v.v # ""
    [] v.k = "list"   -> v.v # <<>>
    [] OTHER          -> TRUE

\* a or b.
Or(a, b) == IF Truthy(a) THEN a ELSE b

IsStr(v) == v.k = "str"

RECURSIVE Upper(_)
Upper(s) ==
  IF s = "" THEN ""
  ELSE LET c    == SubSeq(s, 1, 1)
           hits == {i \in 1..26 : SubSeq(LowerCase, i, i) = c}
       IN  (IF hits = {} THEN c ELSE SubSeq(UpperCase, First(hits), First(hits)))
             \o Upper(SubSeq(s, 2, Len(s)))

Digits == "0123456789"

IsDigit(c) == Contains(Digits, c)

AllDigits(s) == s # "" /\ \A i \in 1..Len(s) : IsDigit(SubSeq(s, i, i))

\* The number a string of decimal digits denotes.
RECURSIVE NatOf(_)
NatOf(s) ==
  IF s = "" THEN 0
  ELSE 10 * NatOf(SubSeq(s, 1, Len(s) - 1))
         + (CHOOSE d \in 0..9 :
              SubSeq(Digits, d + 1, d + 1) = SubSeq(s, Len(s), Len(s)))

\* The decimal digits of a natural number.
RECURSIVE NatToStr(_)
NatToStr(n) ==
  IF n < 10 THEN SubSeq(Digits, n + 1, n + 1)
  ELSE NatToStr(n \div 10) \o SubSeq(Digits, (n % 10) + 1, (n % 10) + 1)

\* str(n) for an int.
IntToStr(n) == IF n < 0 THEN "-" \o NatToStr(-n) ELSE NatToStr(n)

\* What float(x) and int(x) yield when they raise ValueError or TypeError.
Raises == [k |-> "raises"]

\* A leading sign split off: <<sign, rest>>.
Signed(s) ==
  IF s # "" /\ SubSeq(s, 1, 1) = "-" THEN <<-1, SubSeq(s, 2, Len(s))>>
  ELSE IF s # "" /\ SubSeq(s, 1, 1) = "+" THEN <<1, SubSeq(s, 2, Len(s))>>
  ELSE <<1, s>>

\* int(x): a number is truncated towards zero, a string must be an integer
\* literal, anything else raises TypeError.
ToInt(x) ==
  CASE x.k = "num" -> Num(IF x.v >= 0 THEN (x.v \div 100) * 100
                          ELSE -(((-x.v) \div 100) * 100))
    [] x.k = "str" ->
         LET parts == Signed(Strip(x.v))
         IN  IF AllDigits(parts[2]) THEN Num(parts[1] * NatOf(parts[2]) * 100)
             ELSE Raises
    [] OTHER -> Raises

\* float(x): a number is itself; a string must be a decimal literal (the
\* strings of the model have at most two decimals, which hundredths hold
\* exactly); anything else raises TypeError.
ToFloat(x) ==
  CASE x.k = "num" -> x
    [] x.k = "str" ->
         LET parts == Signed(Strip(x.v))
             body  == parts[2]
             dots  == {i \in 1..Len(body) : SubSeq(body, i, i) = "."}
         IN  IF dots = {} THEN
               (IF AllDigits(body) THEN Num(parts[1] * NatOf(body) * 100)
                ELSE Raises)
             ELSE LET d     == First(dots)
                      whole == SubSeq(body, 1, d - 1)
                      frac  == SubSeq(body, d + 1, Len(body))
                      ok    == /\ whole = "" \/ AllDigits(whole)
                               /\ frac = "" \/ AllDigits(frac)
                               /\ whole # "" \/ frac # ""
                               /\ Len(frac) <= 2
                      cents == NatOf(SubSeq(frac \o "00", 1, 2))
                  IN  IF ok THEN Num(parts[1] * (NatOf(whole) * 100 + cents))
                      ELSE Raises
    [] OTHER -> Raises

\* extract_price_info: the four price fields of the cleaned product.
extract_price_info(product) ==
  LET price_display     == Get(product.price)
      price_numeric     == Get(product.extracted_price)
      old_price_display == Get(product.old_price)
      old_price_numeric == Get(product.extracted_old_price)
      stripped_old      == Strip(old_price_display.v)
  IN  [price_display |->
         IF Truthy(price_display) /\ IsStr(price_display)
           THEN Str(Strip(price_display.v)) ELSE price_display,
       price_numeric |->
         IF Truthy(price_numeric) THEN ToFloat(price_numeric) ELSE Null,
       old_price_display |->
         IF Truthy(old_price_display) /\ IsStr(old_price_display)
           THEN (IF /\ Len(stripped_old) >= 4
                    /\ Lower(SubSeq(stripped_old, 1, 4)) = "was "
                   THEN Str(Strip(SubSeq(stripped_old, 5, Len(stripped_old))))
                   ELSE Str(stripped_old))
           ELSE old_price_display,
       old_price_numeric |->
         IF Truthy(old_price_numeric) THEN ToFloat(old_price_numeric) ELSE Null]

\* re.search(r'(\d+)%', item).group(1), or "" when there is no match: the
\* digits that end at the first '%' that has a digit right before it.
PercentNumber(item) ==
  LET marks == {i \in 2..Len(item) : /\ SubSeq(item, i, i) = "%"
                                     /\ IsDigit(SubSeq(item, i - 1, i - 1))}
  IN  IF marks = {} THEN ""
      ELSE LET m      == First(marks)
               starts == {s \in 1..(m - 1) :
                            \A j \in s..(m - 1) : IsDigit(SubSeq(item, j, j))}
           IN  SubSeq(item, First(starts), m - 1)

\* round(x) of the quotient num / den (den > 0): the nearest integer, a tie
\* going to the even one.
RoundQuotient(num, den) ==
  LET q == num \div den
      r == num % den
  IN  IF 2 * r < den THEN q
      ELSE IF 2 * r > den THEN q + 1
      ELSE IF q % 2 = 0 THEN q ELSE q + 1

\* An extract_discount_info that never looks at the tag or the extensions.
extract_discount_info_computed_only(product, price_info) ==
  LET new_price == price_info.price_numeric
      old_price == price_info.old_price_numeric
  IN  IF Truthy(new_price) /\ Truthy(old_price) /\ old_price.v > new_price.v
        THEN Str(IntToStr(RoundQuotient(100 * (old_price.v - new_price.v),
                                        old_price.v)) \o "% OFF")
      ELSE Null

\* extract_discount_info: the discount_percentage of the cleaned product.
extract_discount_info(product, price_info) ==
  LET extensions == GetOr(product.extensions, List(<<>>))
      tag        == Get(product.tag)
      items      == <<tag>> \o (IF Truthy(extensions) THEN extensions.v ELSE <<>>)
      hits       == {i \in 1..Len(items) :
                       /\ Truthy(items[i]) /\ IsStr(items[i])
                       /\ Contains(items[i].v, "%")
                       /\ Contains(Upper(items[i].v), "OFF")
                       /\ PercentNumber(items[i].v) # ""}
      new_price  == price_info.price_numeric
      old_price  == price_info.old_price_numeric
  IN  IF hits # {}
        THEN Str(PercentNumber(items[First(hits)].v) \o "% OFF")
      ELSE IF Truthy(new_price) /\ Truthy(old_price) /\ old_price.v > new_price.v
        THEN Str(IntToStr(RoundQuotient(100 * (old_price.v - new_price.v),
                                        old_price.v)) \o "% OFF")
      ELSE Null

\* get_best_image_url: thumbnail, else thumbnails[0], else
\* serpapi_thumbnails[0].
get_best_image_url(product) ==
  LET thumbnail          == Get(product.thumbnail)
      thumbnails         == GetOr(product.thumbnails, List(<<>>))
      serpapi_thumbnails == GetOr(product.serpapi_thumbnails, List(<<>>))
      second == IF Truthy(thumbnail) THEN thumbnail
                ELSE IF Truthy(thumbnails) THEN thumbnails.v[1]
                ELSE thumbnail
  IN  IF Truthy(second) THEN second
      ELSE IF Truthy(serpapi_thumbnails) THEN serpapi_thumbnails.v[1]
      ELSE second

\* The loop of extract_product_tags: every extension not yet listed.
RECURSIVE AddExtensions(_, _)
AddExtensions(tags, exts) ==
  IF exts = <<>> THEN tags
  ELSE AddExtensions(
         IF /\ Truthy(Head(exts)) /\ IsStr(Head(exts))
            /\ \A i \in 1..Len(tags) : tags[i] # Head(exts)
           THEN Append(tags, Head(exts)) ELSE tags,
         Tail(exts))

\* extract_product_tags: the tag, then the extensions.
extract_product_tags(product) ==
  LET tag        == Get(product.tag)
      extensions == GetOr(product.extensions, List(<<>>))
  IN  List(AddExtensions(IF Truthy(tag) /\ IsStr(tag) THEN <<tag>> ELSE <<>>,
                         IF Truthy(extensions) THEN extensions.v ELSE <<>>))

\* clean_product_title: default, strip, cut to 100 characters.
clean_product_title(title) ==
  IF ~Truthy(title) THEN Str("Untitled Product")
  ELSE LET t == Strip(title.v)
       IN  IF Len(t) > 100 THEN Str(SubSeq(t, 1, 97) \o "...") ELSE Str(t)

\* The hundredths h in 0..500 with h % 10 = 5 for which round(h / 100, 1)
\* rounds up: the double nearest to h / 100 lies above the midpoint.
TiesRoundedUp ==
  {5, 45, 55, 65, 75, 105, 135, 155, 175, 185, 235, 245, 275, 285, 295,
   335, 345, 375, 385, 395, 415, 445, 465, 475, 495}

\* round(x, 1) for 0 <= x <= 5, in hundredths.
RoundToTenth(h) ==
  LET base == (h \div 10) * 10
      r    == h % 10
  IN  IF r < 5 THEN base
      ELSE IF r > 5 THEN base + 10
      ELSE IF h \in TiesRoundedUp THEN base + 10 ELSE base

\* A clean_rating without the range check.
clean_rating_unchecked(rating) ==
  IF rating = Null THEN Null
  ELSE LET rating_float == ToFloat(rating)
       IN  IF rating_float # Raises THEN Num(RoundToTenth(rating_float.v))
           ELSE Null

\* clean_rating: None unless float(rating) lies in [0, 5].
clean_rating(rating) ==
  IF rating = Null THEN Null
  ELSE LET rating_float == ToFloat(rating)
       IN  IF /\ rating_float # Raises
              /\ 0 <= rating_float.v /\ rating_float.v <= 500
             THEN Num(RoundToTenth(rating_float.v))
             ELSE Null

\* clean_review_count: None unless int(reviews) is at least 0.
clean_review_count(reviews) ==
  IF reviews = Null THEN Null
  ELSE LET review_count == ToInt(reviews)
       IN  IF review_count # Raises /\ review_count.v >= 0
             THEN review_count ELSE Null

\* A dict without any of the keys the cleaner reads stands for {}.
IsEmptyDict(product) == \A key \in DOMAIN product : product[key] = Absent

\* clean_single_product: the cleaned product, or None for a value that is
\* not a non-empty dict.
clean_single_product(product) ==
  IF product = Null \/ product = Other \/ IsEmptyDict(product) THEN Null
  ELSE LET price_info == extract_price_info(product)
       IN  [id |-> Or(Get(product.product_id),
                      GetOr(product.position, Str("unknown"))),
            title |-> clean_product_title(GetOr(product.title, Str(""))),
            price |-> price_info.price_display,
            price_numeric |-> price_info.price_numeric,
            old_price |-> price_info.old_price_display,
            old_price_numeric |-> price_info.old_price_numeric,
            discount_percentage |-> extract_discount_info(product, price_info),
            image_url |-> get_best_image_url(product),
            product_url |-> Or(Get(product.product_link), Get(product.link)),
            source |-> GetOr(product.source, Str("Unknown")),
            source_icon |-> Get(product.source_icon),
            rating |-> clean_rating(Get(product.rating)),
            review_count |-> clean_review_count(Get(product.reviews)),
            delivery_info |-> Or(Get(product.delivery), Get(product.shipping)),
            tags |-> extract_product_tags(product),
            direct_links |-> Absent]

(***************************************************************************)
(* Result cleaner (clean_search_results_for_frontend)                      *)
(***************************************************************************)
RECURSIVE Sum(_)
Sum(seq) == IF seq = <<>> THEN 0 ELSE Head(seq) + Sum(Tail(seq))

\* calculate_price_range: min, max and average of the prices above zero.
calculate_price_range(prices) ==
  LET valid_prices == SelectSeq(prices, LAMBDA p : p > 0)
      values       == {valid_prices[i] : i \in 1..Len(valid_prices)}
  IN  IF valid_prices = <<>> THEN Null
      ELSE [min     |-> Num(CHOOSE p \in values : \A o \in values : p <= o),
            max     |-> Num(CHOOSE p \in values : \A o \in values : p >= o),
            average |-> Num(RoundQuotient(Sum(valid_prices), Len(valid_prices)))]

\* The query the cleaner files a result set under.
QueryOfResult(result) == GetOr(result.original_query, Str("Unknown query"))

\* An error test that lets an empty product list through.
IsErrorResult_empty_list_passes(result) ==
  \/ result.error # Absent
  \/ result.shopping_results = Absent

\* The branches of the loop that end in error_items.
IsErrorResult(result) ==
  \/ result.error # Absent
  \/ ~Truthy(GetOr(result.shopping_results, List(<<>>)))

ErrorItem(result) ==
  [query |-> QueryOfResult(result),
   error |-> IF result.error # Absent THEN result.error
             ELSE Str("No shopping results found")]

\* The loop over shopping_results: the products clean_single_product
\* returns something for, in order.
RECURSIVE CleanedProducts(_)
CleanedProducts(shopping_results) ==
  IF shopping_results = <<>> THEN <<>>
  ELSE (IF clean_single_product(Head(shopping_results)) # Null
          THEN <<clean_single_product(Head(shopping_results))>>
          ELSE <<>>)
         \o CleanedProducts(Tail(shopping_results))

\* The prices list: the price_numeric of every product that has a truthy one.
RECURSIVE Prices(_)
Prices(cleaned_products) ==
  IF cleaned_products = <<>> THEN <<>>
  ELSE (IF Truthy(Head(cleaned_products).price_numeric)
          THEN <<Head(cleaned_products).price_numeric.v>>
          ELSE <<>>)
         \o Prices(Tail(cleaned_products))

\* A clothing item that counts the search results instead of the products
\* that were cleaned.
ClothingItem_counts_raw(result) ==
  [query          |-> QueryOfResult(result),
   item_type      |-> extract_item_type_from_query(QueryOfResult(result).v),
   products       |-> CleanedProducts(result.shopping_results.v),
   total_products |-> Len(result.shopping_results.v),
   price_range    |-> Null]

\* The clothing item of a result set that has products (cleaned_products is
\* computed once, as the local variable of the code).
ClothingItem(result) ==
  CHOOSE clothing_item \in
    {[query          |-> QueryOfResult(result),
      item_type      |-> extract_item_type_from_query(QueryOfResult(result).v),
      products       |-> cleaned_products,
      total_products |-> Len(cleaned_products),
      price_range    |-> IF Prices(cleaned_products) # <<>>
                           THEN calculate_price_range(Prices(cleaned_products))
                           ELSE Null] :
       cleaned_products \in {CleanedProducts(result.shopping_results.v)}} : TRUE

\* cleaned_items: one clothing item per result set that is no error.
RECURSIVE CleanedItems(_)
CleanedItems(raw) ==
  IF raw = <<>> THEN <<>>
  ELSE (IF IsErrorResult(Head(raw)) THEN <<>> ELSE <<ClothingItem(Head(raw))>>)
         \o CleanedItems(Tail(raw))

\* error_items: one entry per result set that is an error.
RECURSIVE ErrorItems(_)
ErrorItems(raw) ==
  IF raw = <<>> THEN <<>>
  ELSE (IF IsErrorResult(Head(raw)) THEN <<ErrorItem(Head(raw))>> ELSE <<>>)
         \o ErrorItems(Tail(raw))

\* TotalProducts that counts the clothing items, not their products.
TotalProducts_counts_items(cleaned_items) == Len(cleaned_items)

\* total_products of the summary: the sum over the clothing items.
RECURSIVE TotalProducts(_)
TotalProducts(cleaned_items) ==
  IF cleaned_items = <<>> THEN 0
  ELSE Head(cleaned_items).total_products + TotalProducts(Tail(cleaned_items))

clean_search_results_for_frontend(raw) ==
  CHOOSE cleaned \in
    {[clothing_items |-> cleaned_items,
      summary |-> [total_items    |-> Len(cleaned_items),
                   total_products |-> TotalProducts(cleaned_items),
                   has_errors     |-> Len(error_items) > 0,
                   error_items    |-> error_items]] :
       cleaned_items \in {CleanedItems(raw)},
       error_items \in {ErrorItems(raw)}} : TRUE

(***************************************************************************)
(* Direct-link stage (extract_direct_links_for_products)                   *)
(***************************************************************************)
\* The product URL points at an aggregator page.
IsGoogleUrl(product_url) ==
  Truthy(product_url) /\ Contains(product_url.v, "google.com/shopping")

\* google_urls: the aggregator URLs of all products (as a set; the code
\* keeps them in order of first occurrence).
GoogleUrls(data) ==
  UNION {{item.products[j].product_url.v :
            j \in {j \in 1..Len(item.products) :
                     IsGoogleUrl(item.products[j].product_url)}} :
         item \in {data.clothing_items[i] : i \in 1..Len(data.clothing_items)}}

\* The link records built from the retailer URLs of one scraped page (the
\* retailer name, the domain and the creation time are left out).
DirectLinkObjects(retailer_urls) ==
  List([i \in 1..Len(retailer_urls) |->
          [id           |-> "dl_live_" \o IntToStr(i - 1),
           retailer_url |-> retailer_urls[i],
           is_active    |-> TRUE]])

\* The direct-link stage that leaves the products of a failed page alone.
DirectLinksOf_skips_failed(product, nothing_scraped, scraped) ==
  IF nothing_scraped THEN List(<<>>)
  ELSE IF ~IsGoogleUrl(product.product_url) THEN product.direct_links
  ELSE IF scraped[product.product_url.v] = Absent THEN product.direct_links
  ELSE DirectLinkObjects(scraped[product.product_url.v].v)

\* product["direct_links"] after the stage: an empty list for every product
\* when no aggregator URL was found or the scraping raised; otherwise the
\* link records of the product's page, an empty list when the page failed,
\* and no change for a product without an aggregator URL.
DirectLinksOf(product, nothing_scraped, scraped) ==
  IF nothing_scraped THEN List(<<>>)
  ELSE IF ~IsGoogleUrl(product.product_url) THEN product.direct_links
  ELSE IF scraped[product.product_url.v] = Absent THEN List(<<>>)
  ELSE DirectLinkObjects(scraped[product.product_url.v].v)

\* extract_direct_links_for_products, given what the scraping did: it raised,
\* or it filed every URL under successful (scraped[url] is the non-empty
\* list of retailer URLs) or under failed (scraped[url] is Absent).
extract_direct_links_for_products(data, scrape_raises, scraped) ==
  IF data.clothing_items = <<>> THEN data
  ELSE [data EXCEPT !.clothing_items =
          [i \in 1..Len(data.clothing_items) |->
             [data.clothing_items[i] EXCEPT !.products =
                [j \in 1..Len(data.clothing_items[i].products) |->
                   [data.clothing_items[i].products[j] EXCEPT !.direct_links =
                      DirectLinksOf(data.clothing_items[i].products[j],
                                    GoogleUrls(data) = {} \/ scrape_raises,
                                    scraped)]]]]]

(***************************************************************************)
(* Query extraction and redo (create_search_query_gemini,                  *)
(* redo_search_queries)                                                    *)
(***************************************************************************)
\* A Python dict of the extraction stage: a key it does not have is Absent.
NoDict ==
  [k |-> "dict", error |-> Absent, raw_response |-> Absent, queries |-> Absent,
   conversation_history |-> Absent, image_bytes |-> Absent,
   system_prompt |-> Absent, model |-> Absent, feedback_used |-> Absent]

IsDict(v) == v.k = "dict"

\* The prompts, shortened to their first words.
system_prompt == Str("You are a professional fashion researcher ...")

user_prompt == "Analyze this image and generate specific search queries ..."

default_feedback == "The search queries you provided were not very good ..."

gemini_model == Str("gemini-2.5-flash-preview-05-20")

\* The image files of the model: the paths open() can read, and their bytes.
ReadableImages == {"outfit.jpg"}

\* A Python bytes value.
Bytes(b) == [k |-> "bytes", v |-> b]

ImageBytes(image_path) == Bytes("bytes of " \o image_path)

\* One turn of the conversation.
Turn(role, parts) == [role |-> role, parts |-> parts]

\* initial_content_serializable: the user turn with the image placeholder.
initial_content_serializable == Turn("user", <<"[IMAGE_DATA]", user_prompt>>)

\* A turn as it is sent to the model: its parts are the image or texts.
\* initial_content is the first turn with the image in it.
initial_content(image_path) ==
  Turn("user", <<ImageBytes(image_path), Str(user_prompt)>>)

\* re.search(r'\[.*\]', text, re.DOTALL).group(0): from the first '[' to the
\* last ']' after it; the text itself when there is no such match.
JsonMatch(text) ==
  LET opens  == {i \in 1..Len(text) : SubSeq(text, i, i) = "["}
      closes == {i \in 1..Len(text) : SubSeq(text, i, i) = "]"}
  IN  IF opens = {} \/ closes = {} THEN text
      ELSE LET first == First(opens)
               last  == CHOOSE i \in closes : \A j \in closes : j <= i
           IN  IF last > first THEN SubSeq(text, first, last) ELSE text

\* The pieces of a text between its commas.
RECURSIVE SplitCommas(_)
SplitCommas(s) ==
  LET commas == {i \in 1..Len(s) : SubSeq(s, i, i) = ","}
  IN  IF commas = {} THEN <<s>>
      ELSE <<SubSeq(s, 1, First(commas) - 1)>>
             \o SplitCommas(SubSeq(s, First(commas) + 1, Len(s)))

\* A JSON string literal without escapes and without commas.
IsStringLiteral(s) ==
  /\ Len(s) >= 2
  /\ SubSeq(s, 1, 1) = "\"" /\ SubSeq(s, Len(s), Len(s)) = "\""
  /\ \A i \in 2..(Len(s) - 1) : SubSeq(s, i, i) \notin {"\"", "\\"}

\* json.loads that takes every text for an empty array.
JsonLoads_never_raises(text) == List(<<>>)

\* json.loads(text) for the texts of the model: an array of string literals
\* is a list of strings, everything else raises JSONDecodeError.
JsonLoads(text) ==
  LET t == Strip(text)
  IN  IF Len(t) < 2 \/ SubSeq(t, 1, 1) # "[" \/ SubSeq(t, Len(t), Len(t)) # "]"
        THEN Raises
      ELSE IF Strip(SubSeq(t, 2, Len(t) - 1)) = "" THEN List(<<>>)
      ELSE LET pieces == SplitCommas(SubSeq(t, 2, Len(t) - 1))
           IN  IF \A i \in 1..Len(pieces) : IsStringLiteral(Strip(pieces[i]))
                 THEN List([i \in 1..Len(pieces) |->
                              Str(SubSeq(Strip(pieces[i]), 2,
                                         Len(Strip(pieces[i])) - 1))])
                 ELSE Raises

\* What genai_client.models.generate_content does: it raises, or it answers
\* with a response whose text is a string or None.
ApiRaises == [raises |-> TRUE, text |-> Null]

ApiAnswers(text) == [raises |-> FALSE, text |-> text]

\* The value under "queries" (or the bare return value) for an error.
ErrorResult(message) == [NoDict EXCEPT !.error = Str(message)]

\* create_search_query_gemini(image_path, return_conversation), given what
\* the model API does when it is called.
create_search_query_gemini(image_path, return_conversation, api) ==
  IF image_path = "" THEN ErrorResult("No image provided")
  ELSE IF image_path \notin ReadableImages \/ api.raises \/ api.text = Null
    THEN LET error_result ==
               ErrorResult("Error in identify_clothing_items_gemini")
         IN  IF return_conversation
               THEN [NoDict EXCEPT
                       !.queries = error_result,
                       !.conversation_history = List(<<>>),
                       !.image_bytes = Null,
                       !.system_prompt =
                         IF image_path \in ReadableImages THEN system_prompt
                         ELSE Null,
                       !.model = gemini_model]
               ELSE error_result
  ELSE LET response_text == Strip(api.text.v)
           conversation_history ==
             List(<<initial_content_serializable,
                    Turn("model", <<response_text>>)>>)
           items == JsonLoads(JsonMatch(response_text))
           value == IF items # Raises THEN items
                    ELSE [ErrorResult(
                            "Failed to parse JSON from identification response")
                            EXCEPT !.raw_response = Str(JsonMatch(response_text))]
       IN  IF return_conversation
             THEN [NoDict EXCEPT
                     !.queries = value,
                     !.conversation_history = conversation_history,
                     !.image_bytes = ImageBytes(image_path),
                     !.system_prompt = system_prompt,
                     !.model = gemini_model]
             ELSE value

\* The model API is called by create_search_query_gemini.
CreateCallsModel(image_path) == image_path \in ReadableImages

\* Line 199: not conversation_context or no "conversation_history" key.
InvalidContext(conversation_context) ==
  \/ conversation_context = Null
  \/ conversation_context.k = "list"
  \/ IsDict(conversation_context)
       /\ conversation_context.conversation_history = Absent

\* Line 202: "error" in conversation_context.get("queries", {}): a key of the
\* dict, or an element of the list, that "queries" holds.
ErrorInQueries(conversation_context) ==
  LET held == conversation_context.queries
  IN  CASE held = Absent   -> FALSE
        [] held.k = "dict" -> held.error # Absent
        [] held.k = "list" -> \E i \in 1..Len(held.v) : held.v[i] = Str("error")
        [] OTHER           -> FALSE

\* feedback_message, or the default text for None.
FeedbackText(feedback_message) ==
  IF feedback_message = Null THEN default_feedback ELSE feedback_message.v

\* Line 221: the turn is a user turn and "[IMAGE_DATA]" occurs in the text
\* of one of its parts.
HoldsPlaceholder(turn) ==
  /\ turn.role = "user"
  /\ \E p \in 1..Len(turn.parts) : Contains(turn.parts[p], "[IMAGE_DATA]")

\* Lines 221 to 232: a turn as it is replayed.  A turn with the placeholder
\* is rebuilt from the image bytes and the text of its second part, and
\* msg["parts"][1] raises IndexError when it has one part only.
ReplayTurn(turn, image_bytes) ==
  IF HoldsPlaceholder(turn)
    THEN IF Len(turn.parts) < 2 THEN Raises
         ELSE Turn("user", <<image_bytes, Str(turn.parts[2])>>)
    ELSE Turn(turn.role, [p \in 1..Len(turn.parts) |-> Str(turn.parts[p])])

\* api_conversation: the stored history and the feedback turn, replayed.
api_conversation(conversation_context, feedback) ==
  LET updated_conversation ==
        Append(conversation_context.conversation_history.v,
               Turn("user", <<feedback>>))
      replayed ==
        [n \in 1..Len(updated_conversation) |->
           ReplayTurn(updated_conversation[n],
                      conversation_context.image_bytes)]
  IN  IF \E n \in 1..Len(replayed) : replayed[n] = Raises THEN Raises
      ELSE replayed

\* The model API is called by redo_search_queries.
RedoCallsModel(conversation_context, feedback_message) ==
  /\ ~InvalidContext(conversation_context)
  /\ ~ErrorInQueries(conversation_context)
  /\ api_conversation(conversation_context,
                      FeedbackText(feedback_message)) # Raises

\* redo_search_queries(conversation_context, feedback_message), given what
\* the model API does when it is called; feedback_message is Null for None.
redo_search_queries(conversation_context, feedback_message, api) ==
  IF InvalidContext(conversation_context)
    THEN ErrorResult("Invalid conversation context provided")
  ELSE IF ErrorInQueries(conversation_context)
    THEN ErrorResult("Cannot redo queries from a failed initial request")
  ELSE IF \/ api_conversation(conversation_context,
                               FeedbackText(feedback_message)) = Raises
          \/ api.raises \/ api.text = Null
    THEN ErrorResult("Error in redo_search_queries")
  ELSE LET feedback == FeedbackText(feedback_message)
           updated_conversation ==
             Append(conversation_context.conversation_history.v,
                    Turn("user", <<feedback>>))
           response_text == Strip(api.text.v)
           final_conversation ==
             Append(updated_conversation, Turn("model", <<response_text>>))
           new_queries == JsonLoads(JsonMatch(response_text))
       IN  IF new_queries # Raises
             THEN [NoDict EXCEPT
                     !.queries = new_queries,
                     !.conversation_history = List(final_conversation),
                     !.image_bytes = conversation_context.image_bytes,
                     !.system_prompt = conversation_context.system_prompt,
                     !.model = conversation_context.model,
                     !.feedback_used = Str(feedback)]
             ELSE [NoDict EXCEPT
                     !.error = Str("Failed to parse JSON from redo response"),
                     !.raw_response = Str(JsonMatch(response_text)),
                     !.conversation_history = List(final_conversation),
                     !.image_bytes = conversation_context.image_bytes,
                     !.system_prompt = conversation_context.system_prompt,
                     !.model = conversation_context.model]

\* What redo_search_queries leaves of the caller's conversation_context: the
\* histories are built with +, which makes new lists, so the argument is as
\* it was.
ContextAfterRedo(conversation_context, feedback_message, api) ==
  conversation_context

(***************************************************************************)
(* Storing a conversation context (app.py, upload_file and redo_search):   *)
(* the context goes through json.dumps without its image_bytes.  A JSON    *)
(* document is kept as its values, with the text of a string as it stands  *)
(* between the quotes.                                                     *)
(***************************************************************************)
\* WithoutImageBytes that stores the context as it is.
WithoutImageBytes_keeps_image(conversation_context) == conversation_context

\* {k: v for k, v in conversation_context.items() if k != 'image_bytes'}
WithoutImageBytes(conversation_context) ==
  [conversation_context EXCEPT !.image_bytes = Absent]

JsonNull == [j |-> "null"]

JsonString(text) == [j |-> "string", text |-> text]

JsonArray(items) == [j |-> "array", items |-> items]

JsonObject(members) == [j |-> "object", members |-> members]

\* The text of a string in a document: quotes and backslashes are escaped.
RECURSIVE JsonEscape(_)
JsonEscape(s) ==
  IF s = "" THEN ""
  ELSE (IF SubSeq(s, 1, 1) \in {"\"", "\\"} THEN "\\" \o SubSeq(s, 1, 1)
        ELSE SubSeq(s, 1, 1))
       \o JsonEscape(SubSeq(s, 2, Len(s)))

RECURSIVE JsonUnescape(_)
JsonUnescape(s) ==
  IF s = "" THEN ""
  ELSE IF SubSeq(s, 1, 1) = "\\" /\ Len(s) >= 2
    THEN SubSeq(s, 2, 2) \o JsonUnescape(SubSeq(s, 3, Len(s)))
    ELSE SubSeq(s, 1, 1) \o JsonUnescape(SubSeq(s, 2, Len(s)))

\* json.dumps(value): None, strings, lists and dicts have a JSON form, a
\* bytes value raises TypeError.  A turn is a dict with "role" and "parts",
\* and each of its parts a dict with "text".
RECURSIVE JsonDumps(_)
JsonDumps(value) ==
  IF "role" \in DOMAIN value
    THEN JsonObject(
           [key \in {"role", "parts"} |->
              IF key = "role" THEN JsonString(JsonEscape(value.role))
              ELSE JsonArray(
                     [p \in 1..Len(value.parts) |->
                        JsonObject([text \in {"text"} |->
                                      JsonString(JsonEscape(value.parts[p]))])])])
  ELSE CASE value.k = "none" -> JsonNull
         [] value.k = "str" -> JsonString(JsonEscape(value.v))
         [] value.k = "list" ->
              LET items == [n \in 1..Len(value.v) |-> JsonDumps(value.v[n])]
              IN  IF \E n \in 1..Len(items) : items[n] = Raises THEN Raises
                  ELSE JsonArray(items)
         [] value.k = "dict" ->
              LET keys == {key \in DOMAIN value \ {"k"} : value[key] # Absent}
                  members == [key \in keys |-> JsonDumps(value[key])]
              IN  IF \E key \in keys : members[key] = Raises THEN Raises
                  ELSE JsonObject(members)
         [] OTHER -> Raises

\* json.loads of a document json.dumps wrote.
RECURSIVE JsonRead(_)
JsonRead(document) ==
  CASE document.j = "null" -> Null
    [] document.j = "string" -> Str(JsonUnescape(document.text))
    [] document.j = "array" ->
         List([n \in 1..Len(document.items) |-> JsonRead(document.items[n])])
    [] document.j = "object" ->
         IF "role" \in DOMAIN document.members
           THEN Turn(JsonUnescape(document.members["role"].text),
                     [p \in 1..Len(document.members["parts"].items) |->
                        JsonUnescape(document.members["parts"].items[p]
                                       .members["text"].text)])
           ELSE [key \in DOMAIN NoDict |->
                   IF key = "k" THEN "dict"
                   ELSE IF key \in DOMAIN document.members
                     THEN JsonRead(document.members[key])
                     ELSE Absent]

(***************************************************************************)
(* Scraping one aggregator page (extract_retailer_urls, scrape_single_url) *)
(* Sleeping between attempts and the time stamps of a result are left out. *)
(***************************************************************************)
\* What requests.get does for one fetch: an HTTP status (0 when no response
\* came at all) and, for a page, the target of each retailer anchor on it
\* (None for an anchor whose href has no q parameter).
Fetch(status, anchors) == [status |-> status, anchors |-> anchors]

RetailerA == "https://www.acme.example/p/1"

RetailerB == "https://shop.example/item"

\* The retailer URLs of the anchors, each once, in page order.
RECURSIVE UniqueUrls(_, _)
UniqueUrls(anchors, retailer_urls) ==
  IF anchors = <<>> THEN retailer_urls
  ELSE UniqueUrls(Tail(anchors),
                  IF Head(anchors) # Null
                       /\ \A i \in 1..Len(retailer_urls) :
                            retailer_urls[i] # Head(anchors).v
                    THEN Append(retailer_urls, Head(anchors).v)
                    ELSE retailer_urls)

\* extract_retailer_urls(google_url): raise_for_status raises for a status of
\* 400 and above, requests.get raises when no response comes; both are
\* RequestExceptions, caught here, and the function returns [].
extract_retailer_urls(fetch) ==
  IF fetch.status = 0 \/ fetch.status >= 400 THEN List(<<>>)
  ELSE List(UniqueUrls(fetch.anchors, <<>>))

\* The result scrape_single_url starts with.
NewScrapeResult(url) ==
  [url |-> url, success |-> FALSE, retailer_urls |-> <<>>, error |-> Null,
   attempts |-> 0, rate_limited |-> FALSE]

\* ScrapeAttempt that records no error when the last attempt finds nothing.
ScrapeAttempt_without_error(result, attempt, max_retries, fetched) ==
  LET counted == [result EXCEPT !.attempts = attempt + 1]
  IN  CASE fetched.k = "list" /\ fetched.v # <<>> ->
             [result |-> [counted EXCEPT !.success = TRUE,
                                         !.retailer_urls = fetched.v],
              done |-> TRUE]
        [] fetched.k = "list" /\ fetched.v = <<>> ->
             IF attempt < max_retries
               THEN [result |-> counted, done |-> FALSE]
               ELSE [result |-> counted, done |-> TRUE]
        [] fetched.k = "http_error" /\ fetched.status = 429 ->
             IF attempt < max_retries
               THEN [result |-> [counted EXCEPT !.rate_limited = TRUE],
                     done |-> FALSE]
               ELSE [result |-> [counted EXCEPT !.rate_limited = TRUE,
                        !.error = Str("Rate limited after all attempts")],
                     done |-> TRUE]
        [] fetched.k = "http_error" /\ fetched.status # 429 ->
             [result |-> [counted EXCEPT !.error = Str("HTTP Error")],
              done |-> TRUE]
        [] OTHER ->
             [result |-> [counted EXCEPT !.error = Str("Unexpected error")],
              done |-> TRUE]

\* One pass of the retry loop of scrape_single_url: attempt counts from 0,
\* fetched is what extract_retailer_urls returned or the exception it let
\* through.  The loop goes on exactly when done is FALSE.
ScrapeAttempt(result, attempt, max_retries, fetched) ==
  LET counted == [result EXCEPT !.attempts = attempt + 1]
  IN  CASE fetched.k = "list" /\ fetched.v # <<>> ->
             [result |-> [counted EXCEPT !.success = TRUE,
                                         !.retailer_urls = fetched.v],
              done |-> TRUE]
        [] fetched.k = "list" /\ fetched.v = <<>> ->
             IF attempt < max_retries
               THEN [result |-> counted, done |-> FALSE]
               ELSE [result |-> [counted EXCEPT !.error =
                        Str("No retailer URLs found after all retries")],
                     done |-> TRUE]
        [] fetched.k = "http_error" /\ fetched.status = 429 ->
             IF attempt < max_retries
               THEN [result |-> [counted EXCEPT !.rate_limited = TRUE],
                     done |-> FALSE]
               ELSE [result |-> [counted EXCEPT !.rate_limited = TRUE,
                        !.error = Str("Rate limited after all attempts")],
                     done |-> TRUE]
        [] fetched.k = "http_error" /\ fetched.status # 429 ->
             [result |-> [counted EXCEPT !.error = Str("HTTP Error")],
              done |-> TRUE]
        [] OTHER ->
             [result |-> [counted EXCEPT !.error = Str("Unexpected error")],
              done |-> TRUE]

\* scrape_single_url((url, delay, max_retries, backoff_factor, thread_id)),
\* given what the successive fetches of the URL do.
RECURSIVE ScrapeFrom(_, _, _, _)
ScrapeFrom(result, attempt, max_retries, fetches) ==
  LET pass == ScrapeAttempt(result, attempt, max_retries,
                            extract_retailer_urls(fetches[attempt + 1]))
  IN  IF pass.done THEN pass.result
      ELSE ScrapeFrom(pass.result, attempt + 1, max_retries, fetches)

scrape_single_url(url, max_retries, fetches) ==
  ScrapeFrom(NewScrapeResult(url), 0, max_retries, fetches)

(***************************************************************************)
(* Scraping many pages in parallel (parallel_scrape_google_products).     *)
(* The progress file and the timing statistics are left out: a failed     *)
(* write of the file is caught and changes nothing else.                  *)
(***************************************************************************)
\* results as parallel_scrape_google_products creates it; the two dicts are
\* functions of the URLs they hold.
NewScrapeResults(urls) ==
  [successful |-> <<>>, failed |-> <<>>,
   stats |-> [total_urls |-> Len(urls), successful_count |-> 0,
              failed_count |-> 0, rate_limit_hits |-> 0,
              total_requests |-> 0]]

\* The dict with d[key] = value.
DictSet(d, key, value) ==
  [k \in DOMAIN d \cup {key} |-> IF k = key THEN value ELSE d[k]]

\* The loop body that records successful scrapes only.
RecordResult_drops_failed(scraped_so_far, result) ==
  IF result.success
    THEN [scraped_so_far EXCEPT
            !.successful = DictSet(@, result.url, result.retailer_urls),
            !.stats.successful_count = @ + 1,
            !.stats.total_requests = @ + result.attempts]
    ELSE scraped_so_far

\* The body of the as_completed loop for one finished future.
RecordResult(scraped_so_far, result) ==
  LET counted ==
        [scraped_so_far EXCEPT
           !.stats.total_requests = @ + result.attempts,
           !.stats.rate_limit_hits = @ + IF result.rate_limited THEN 1 ELSE 0]
  IN  IF result.success
        THEN [counted EXCEPT
                !.successful = DictSet(@, result.url, result.retailer_urls),
                !.stats.successful_count = @ + 1]
        ELSE [counted EXCEPT
                !.failed = DictSet(@, result.url, result.error),
                !.stats.failed_count = @ + 1]

(***************************************************************************)
(* Parallel shopping searcher                                              *)
(***************************************************************************)
QueryPool == {"q1", "q2"}

max_workers == 5

\* What one call of the shopping API can do: raise, or answer with a dict
\* that has products, has an "error" key, or has neither.
ApiOutcomes ==
  { [raises |-> TRUE,  response |-> Absent],
    [raises |-> FALSE, response |-> [error |-> Absent, original_query |-> Absent,
                                     shopping_results |-> List(<<"product">>)]],
    [raises |-> FALSE, response |-> [error |-> Absent, original_query |-> Absent,
                                     shopping_results |-> Absent]],
    [raises |-> FALSE, response |-> [error |-> Str("no results for this query"),
                                     original_query |-> Absent,
                                     shopping_results |-> Absent]] }

\* A search_shopping_item whose except branch forgets the error marker.
search_shopping_item_swallow(query, api) ==
  IF ~SERPAPI_KEY
    THEN [error |-> Str("SERPAPI_API_KEY not set in environment variables"),
          original_query |-> Absent, shopping_results |-> Absent]
    ELSE IF api.raises
      THEN [error |-> Absent,
            original_query |-> Str(query), shopping_results |-> Absent]
      ELSE [api.response EXCEPT !.original_query = Str(query)]

\* search_shopping_item(query): the value returned for one query.
search_shopping_item(query, api) ==
  IF ~SERPAPI_KEY
    THEN [error |-> Str("SERPAPI_API_KEY not set in environment variables"),
          original_query |-> Absent, shopping_results |-> Absent]
    ELSE IF api.raises
      THEN [error |-> Str("Error in search_shopping_item"),
            original_query |-> Str(query), shopping_results |-> Absent]
      ELSE [api.response EXCEPT !.original_query = Str(query)]

Futures == 1..Len(queries)

Running == {f \in Futures : future_state[f] = "running"}

(***************************************************************************)
(* The inputs of the model and its specifications.  Each one runs one      *)
(* component and leaves the variables of the others at rest.               *)
(***************************************************************************)
SearchIdle ==
  /\ SERPAPI_KEY = TRUE /\ queries = <<>> /\ submitted = 0
  /\ future_state = <<>> /\ future_result = <<>> /\ api_outcome = <<>>
  /\ yielded = {} /\ results = <<>> /\ search_pc = "idle"

ProductIdle == prod_raw = Null /\ prod_cleaned = Null /\ prod_pc = "idle"

CleanIdle ==
  /\ raw_search_results = <<>> /\ cleaned_data = Null /\ clean_pc = "idle"
  /\ scraping_results = Null

ClassifyIdle ==
  /\ cl_prefix = <<>> /\ cl_noun = 1
  /\ cl_plural_type = "" /\ cl_singular_type = ""

ExtractIdle ==
  ex_image = "" /\ ex_mode = FALSE /\ ex_chain = <<>> /\ ex_calls = <<>>

CoreIdle == SearchIdle /\ ProductIdle /\ CleanIdle /\ ClassifyIdle

ScrapeIdle ==
  sc_max_retries = 0 /\ sc_result = Null /\ sc_fetches = <<>> /\ sc_pc = "idle"

BatchIdle ==
  /\ ps_urls = <<>> /\ ps_futures = <<>> /\ ps_collected = {}
  /\ ps_results = Null /\ ps_pc = "idle"

PipeIdle ==
  /\ pl_args = Null /\ pl_trace = <<>> /\ pl_queries = Null /\ pl_context = Null
  /\ pl_result = Null /\ pl_cleaned = Null /\ pl_failures = {}
  /\ pl_log = <<>> /\ pl_search_results = Null

CollIdle == collections = {} /\ coll_next_id = 0 /\ saved_items = {}

StageIdle == ExtractIdle /\ ScrapeIdle /\ BatchIdle /\ PipeIdle /\ CollIdle

SearchInit ==
  /\ SERPAPI_KEY \in BOOLEAN
  /\ queries \in UNION {[1..n -> QueryPool] : n \in 0..MaxQueries}
  /\ submitted = 0
  /\ future_state = [f \in 1..Len(queries) |-> "unsubmitted"]
  /\ future_result = [f \in 1..Len(queries) |-> Absent]
  /\ api_outcome = [f \in 1..Len(queries) |-> Absent]
  /\ yielded = {}
  /\ results = <<>>
  /\ search_pc = "submitting"
  /\ ProductIdle /\ CleanIdle /\ ClassifyIdle /\ StageIdle

\* executor.submit(search_shopping_item, query, ...) for the next query.
Submit ==
  /\ search_pc = "submitting"
  /\ submitted < Len(queries)
  /\ submitted' = submitted + 1
  /\ future_state' = [future_state EXCEPT ![submitted + 1] = "pending"]
  /\ UNCHANGED <<SERPAPI_KEY, queries, future_result, api_outcome, yielded,
                 results, search_pc, prodVars, cleanVars, classVars, stageVars>>

\* The dict comprehension is complete: the as_completed loop starts.
SubmitDone ==
  /\ search_pc = "submitting"
  /\ submitted = Len(queries)
  /\ search_pc' = "collecting"
  /\ UNCHANGED <<SERPAPI_KEY, queries, submitted, future_state,
                 future_result, api_outcome, yielded, results, prodVars,
                 cleanVars, classVars, stageVars>>

\* A free worker of the pool takes the oldest pending task.
StartTask(f) ==
  /\ future_state[f] = "pending"
  /\ \A g \in Futures : g < f => future_state[g] # "pending"
  /\ Cardinality(Running) < max_workers
  /\ future_state' = [future_state EXCEPT ![f] = "running"]
  /\ UNCHANGED <<SERPAPI_KEY, queries, submitted, future_result,
                 api_outcome, yielded, results, search_pc, prodVars,
                 cleanVars, classVars, stageVars>>

\* The worker's call of search_shopping_item ends; the API did `api`.
FinishTask(f) ==
  /\ future_state[f] = "running"
  /\ \E api \in ApiOutcomes :
       /\ api_outcome' = [api_outcome EXCEPT ![f] = api]
       /\ future_result' =
            [future_result EXCEPT ![f] = search_shopping_item(queries[f], api)]
  /\ future_state' = [future_state EXCEPT ![f] = "done"]
  /\ UNCHANGED <<SERPAPI_KEY, queries, submitted, yielded, results,
                 search_pc, prodVars, cleanVars, classVars, stageVars>>

\* One iteration of the as_completed loop: a finished future is handed out
\* and its result appended.  search_shopping_item catches every Exception, so
\* future.result() returns and the except branch of the loop is not taken.
Collect(f) ==
  /\ search_pc = "collecting"
  /\ future_state[f] = "done"
  /\ f \notin yielded
  /\ yielded' = yielded \cup {f}
  /\ results' = Append(results, [future |-> f, value |-> future_result[f]])
  /\ UNCHANGED <<SERPAPI_KEY, queries, submitted, future_state,
                 future_result, api_outcome, search_pc, prodVars, cleanVars,
                 classVars, stageVars>>

\* Every future was handed out: the executor shuts down, results is returned.
SearchReturn ==
  /\ search_pc = "collecting"
  /\ yielded = Futures
  /\ search_pc' = "returned"
  /\ UNCHANGED <<SERPAPI_KEY, queries, submitted, future_state,
                 future_result, api_outcome, yielded, results, prodVars,
                 cleanVars, classVars, stageVars>>

SearchNext ==
  \/ Submit
  \/ SubmitDone
  \/ \E f \in Futures : StartTask(f)
  \/ \E f \in Futures : FinishTask(f)
  \/ \E f \in Futures : Collect(f)
  \/ SearchReturn

SearchSpec == SearchInit /\ [][SearchNext]_vars

\* ---- per-product cleaning ----
\* A shopping result without any of the keys the cleaner reads.
EmptyProduct ==
  [product_id |-> Absent, position |-> Absent, title |-> Absent,
   price |-> Absent, extracted_price |-> Absent, old_price |-> Absent,
   extracted_old_price |-> Absent, extensions |-> Absent, tag |-> Absent,
   thumbnail |-> Absent, thumbnails |-> Absent, serpapi_thumbnails |-> Absent,
   product_link |-> Absent, link |-> Absent, delivery |-> Absent,
   shipping |-> Absent, source |-> Absent, source_icon |-> Absent,
   rating |-> Absent, reviews |-> Absent]

\* A shopping result with every key, a title of 101 characters, padded
\* price strings and a "Was" label.
FullProduct ==
  [product_id |-> Str("8412"), position |-> Num(300),
   title |-> Str("  Women's Black Leather Bomber Jacket with Quilted Lining, "
                   \o "Ribbed Cuffs and Two Zip Pockets - Regular Fit  "),
   price |-> Str(" $80.00 "), extracted_price |-> Absent,
   old_price |-> Str("Was $100.00"), extracted_old_price |-> Absent,
   extensions |-> Absent, tag |-> Absent,
   thumbnail |-> Str(""), thumbnails |-> List(<<Str("https://img.example/a.png")>>),
   serpapi_thumbnails |-> List(<<Str("https://img.example/s.png")>>),
   product_link |-> Str("https://www.google.com/shopping/product/1"),
   link |-> Str("https://shop.example/item"),
   delivery |-> Absent, shipping |-> Str("$5 shipping"),
   source |-> Str("Acme"), source_icon |-> Null,
   rating |-> Num(445), reviews |-> Str("12")]

\* extracted_price and extracted_old_price, in cents.
PriceValues == {Absent, Num(0), Num(-500), Num(700), Num(8000)}

OldPriceValues == {Absent, Num(0), Num(800), Num(10000)}

TagValues ==
  {Absent, Str("20% OFF"), Str("SALE"), Str("Save 015% off today"),
   Str("20 % OFF")}

ExtensionValues ==
  {Absent, List(<<Str("Free shipping"), Str("30% off")>>),
   List(<<Str("% OFF")>>)}

\* rating, in hundredths of a star.
RatingValues ==
  {Absent, Null, Num(-100), Num(0), Num(425), Num(445), Num(496), Num(500),
   Num(501), Num(730), Str("4.5"), Str(" 3.75 "), Str("6"), Str("abc"),
   Str("4.5 stars"), Other}

\* reviews, in hundredths.
ReviewValues ==
  {Absent, Null, Num(0), Num(1200), Num(370), Num(-50), Num(-300),
   Str("12"), Str("1,234"), Str("4.5"), Str("-7"), Other}

RawProducts ==
  {[base EXCEPT !.extracted_price = p, !.extracted_old_price = o,
                !.tag = t, !.extensions = e] :
     base \in {EmptyProduct, FullProduct}, p \in PriceValues,
     o \in OldPriceValues, t \in TagValues, e \in ExtensionValues}
  \cup
  {[EmptyProduct EXCEPT !.rating = r, !.reviews = v] :
     r \in RatingValues, v \in ReviewValues}
  \cup {Null, Other}

ProductInit ==
  /\ prod_raw \in RawProducts
  /\ prod_cleaned = Null
  /\ prod_pc = "raw"
  /\ SearchIdle /\ CleanIdle /\ ClassifyIdle /\ StageIdle

\* clean_single_product(product) is called.
CleanProduct ==
  /\ prod_pc = "raw"
  /\ prod_cleaned' = clean_single_product(prod_raw)
  /\ prod_pc' = "cleaned"
  /\ UNCHANGED <<prod_raw, searchVars, cleanVars, classVars, stageVars>>

ProductNext == CleanProduct

ProductSpec == ProductInit /\ [][ProductNext]_vars

\* ---- result cleaner and direct-link stage ----
GoogleUrlA == Str("https://www.google.com/shopping/product/1")
GoogleUrlB == Str("https://www.google.com/shopping/product/2")

\* The product lists of the search responses.
ProductLists ==
  LET priced  == [EmptyProduct EXCEPT !.extracted_price = Num(8000),
                                      !.product_link = GoogleUrlA]
      dearer  == [EmptyProduct EXCEPT !.extracted_price = Num(10000),
                                      !.product_link = GoogleUrlB]
      negative == [EmptyProduct EXCEPT !.extracted_price = Num(-500),
                                       !.link = Str("https://shop.example/item")]
      free    == [EmptyProduct EXCEPT !.extracted_price = Num(0),
                                      !.title = Str("Free sample")]
  IN  {<<priced>>, <<negative>>, <<free, priced>>, <<Other>>,
       <<priced, dearer>>, <<priced, negative, priced>>, <<EmptyProduct, Null>>}

CleanerQueries == {"blue running shoes", "slim jeans"}

\* The result sets the search stage can hand to the cleaner.
RawResultSets ==
  {[error |-> Absent, original_query |-> Str(q), shopping_results |-> List(l)] :
     q \in CleanerQueries, l \in ProductLists \cup {<<>>}}
  \cup
  {[error |-> e, original_query |-> Str(q), shopping_results |-> Absent] :
     q \in CleanerQueries, e \in {Absent, Str("Error in search_shopping_item")}}
  \cup
  {[error |-> Str("SERPAPI_API_KEY not set in environment variables"),
    original_query |-> Absent, shopping_results |-> Absent],
   [error |-> Str("quota exceeded"), original_query |-> Str("slim jeans"),
    shopping_results |-> List(<<EmptyProduct>>)]}

\* What scraping one aggregator page ends in: Absent is a failure.
ScrapeOutcomes ==
  {Absent, List(<<"https://www.acme.example/p/1">>),
   List(<<"https://www.acme.example/p/1", "https://shop.example/item">>)}

CleanInit ==
  /\ raw_search_results \in UNION {[1..n -> RawResultSets] : n \in 0..MaxResults}
  /\ cleaned_data = Null
  /\ clean_pc = "raw"
  /\ scraping_results = Null
  /\ SearchIdle /\ ProductIdle /\ ClassifyIdle /\ StageIdle

\* cleaned_data = clean_search_results_for_frontend(raw_results)
CleanResults ==
  /\ clean_pc = "raw"
  /\ cleaned_data' = clean_search_results_for_frontend(raw_search_results)
  /\ clean_pc' = "cleaned"
  /\ UNCHANGED <<raw_search_results, scraping_results, searchVars, prodVars, classVars, stageVars>>

\* cleaned_data = extract_direct_links_for_products(cleaned_data, ...)
ExtractDirectLinks ==
  /\ clean_pc = "cleaned"
  /\ \E scrape_raises \in BOOLEAN,
        scraped \in [GoogleUrls(cleaned_data) -> ScrapeOutcomes] :
       /\ cleaned_data' =
            extract_direct_links_for_products(cleaned_data, scrape_raises,
                                              scraped)
       /\ scraping_results' = [raised |-> scrape_raises, pages |-> scraped]
  /\ clean_pc' = "linked"
  /\ UNCHANGED <<raw_search_results, searchVars, prodVars, classVars, stageVars>>

CleanNext == CleanResults \/ ExtractDirectLinks

CleanSpec == CleanInit /\ [][CleanNext]_vars

\* ---- item-type classifier ----
\* Pieces a query is put together from, before the noun that names the item.
PrefixPool ==
  {"women's black leather", "bomber", "blue", "running", "slim", "duffle",
   "v-neck"}

\* Item nouns: <<singular, plural>>.
NounForms ==
  << <<"shoe", "shoes">>, <<"jacket", "jackets">>, <<"dress", "dresses">>,
     <<"scarf", "scarves">>, <<"glove", "gloves">>, <<"jean", "jeans">>,
     <<"boot", "boots">>, <<"sweater", "sweaters">>, <<"Coat,", "Coats,">> >>

RECURSIVE Join(_)
Join(pieces) ==
  IF pieces = <<>> THEN ""
  ELSE IF Len(pieces) = 1 THEN pieces[1]
  ELSE pieces[1] \o " " \o Join(Tail(pieces))

\* The query with the noun in the singular (form 1) or the plural (form 2).
QueryText(form) == Join(Append(cl_prefix, NounForms[cl_noun][form]))

ClassifyInit ==
  /\ cl_prefix \in UNION {[1..n -> PrefixPool] : n \in 0..MaxPrefix}
  /\ cl_noun \in 1..Len(NounForms)
  /\ cl_plural_type = ""
  /\ cl_singular_type = ""
  /\ SearchIdle /\ ProductIdle /\ CleanIdle /\ StageIdle

\* extract_item_type_from_query on the plural query.
ClassifyPlural ==
  /\ cl_plural_type = ""
  /\ cl_plural_type' = extract_item_type_from_query(QueryText(2))
  /\ UNCHANGED <<cl_prefix, cl_noun, cl_singular_type,
                 searchVars, prodVars, cleanVars, stageVars>>

\* extract_item_type_from_query on the singular query.
ClassifySingular ==
  /\ cl_singular_type = ""
  /\ cl_singular_type' = extract_item_type_from_query(QueryText(1))
  /\ UNCHANGED <<cl_prefix, cl_noun, cl_plural_type,
                 searchVars, prodVars, cleanVars, stageVars>>

ClassifyNext == ClassifyPlural \/ ClassifySingular

ClassifySpec == ClassifyInit /\ [][ClassifyNext]_vars

\* ---- query extraction and redo ----
\* How many redos follow one extraction.
MaxRedos == 2

\* No path, a path no file is at, and a readable image.
ImagePaths == {"", "missing.jpg", "outfit.jpg"}

\* What the model may answer: an empty array, arrays of queries (bare, padded
\* with blanks, wrapped in prose), prose without an array, and prose whose
\* brackets do not hold JSON.
ResponseTexts ==
  {"[]", " [ ] ", "[\"white linen shirt\"]", "[\"error\"]",
   "Sure: [\"white linen shirt\", \"slim jeans\"] enjoy",
   "no clothing here", "I see [a shirt] here"}

ModelReplies ==
  {ApiRaises, ApiAnswers(Null)} \cup {ApiAnswers(Str(t)) : t \in ResponseTexts}

\* feedback_message: None or the caller's text, with and without the text
\* of the image placeholder in it.
Feedbacks ==
  {Null, Str("more formal please"),
   Str("the photo is [IMAGE_DATA], look at the coat")}

\* One entry of ex_calls: contents is what was sent to the model.
Call(fn, context, feedback, called, api, contents) ==
  [fn |-> fn, context |-> context, feedback |-> feedback, called |-> called,
   api |-> IF called THEN api ELSE Null,
   contents |-> IF called THEN List(contents) ELSE Null]

ExtractInit ==
  /\ ex_image \in ImagePaths /\ ex_mode \in BOOLEAN
  /\ ex_chain = <<>> /\ ex_calls = <<>>
  /\ CoreIdle /\ ScrapeIdle /\ BatchIdle /\ PipeIdle /\ CollIdle

\* create_search_query_gemini(ex_image, ex_mode)
CreateQueries ==
  /\ ex_chain = <<>>
  /\ \E api \in ModelReplies :
       /\ CreateCallsModel(ex_image) \/ api = ApiRaises
       /\ ex_chain' = <<create_search_query_gemini(ex_image, ex_mode, api)>>
       /\ ex_calls' =
            <<Call("create", Null, Null, CreateCallsModel(ex_image), api,
                   <<initial_content(ex_image)>>)>>
  /\ UNCHANGED <<ex_image, ex_mode, coreVars, scrapeVars, batchVars, pipeVars, collVars>>

\* redo_search_queries(context, feedback_message), where context is the value
\* the call before returned.  The caller keeps that value: the last entry of
\* ex_chain becomes what the call left of it.
RedoQueries ==
  /\ ex_chain # <<>> /\ Len(ex_chain) <= MaxRedos
  /\ \E feedback_message \in Feedbacks, api \in ModelReplies :
       LET conversation_context == ex_chain[Len(ex_chain)]
           called == RedoCallsModel(conversation_context, feedback_message)
       IN  /\ called \/ api = ApiRaises
           /\ InvalidContext(conversation_context)
                \/ ErrorInQueries(conversation_context) =>
                  feedback_message = Null
           /\ ex_chain' =
                Append([ex_chain EXCEPT ![Len(ex_chain)] =
                          ContextAfterRedo(conversation_context,
                                           feedback_message, api)],
                       redo_search_queries(conversation_context,
                                           feedback_message, api))
           /\ ex_calls' =
                Append(ex_calls,
                       Call("redo", conversation_context, feedback_message,
                            called, api,
                            IF called
                              THEN api_conversation(
                                     conversation_context,
                                     FeedbackText(feedback_message))
                              ELSE <<>>))
  /\ UNCHANGED <<ex_image, ex_mode, coreVars, scrapeVars, batchVars, pipeVars, collVars>>

ExtractNext == CreateQueries \/ RedoQueries

ExtractSpec == ExtractInit /\ [][ExtractNext]_vars

\* ---- scraping one aggregator page ----
\* The largest max_retries.
MaxRetries == 2

\* The pages and failures of the model: pages without and with retailer
\* anchors, a rate-limit answer, a server error and no response.
Fetches ==
  {Fetch(200, <<>>), Fetch(200, <<Str(RetailerA)>>),
   Fetch(200, <<Str(RetailerA), Null, Str(RetailerA), Str(RetailerB)>>),
   Fetch(429, <<>>), Fetch(500, <<>>), Fetch(0, <<>>)}

ScrapeInit ==
  /\ sc_max_retries \in 0..MaxRetries
  /\ sc_result = NewScrapeResult(GoogleUrlA)
  /\ sc_fetches = <<>>
  /\ sc_pc = "looping"
  /\ CoreIdle /\ ExtractIdle /\ BatchIdle /\ PipeIdle /\ CollIdle

\* One pass of the loop: a fetch, and what the loop makes of it.
Attempt ==
  /\ sc_pc = "looping"
  /\ \E fetch \in Fetches :
       LET pass == ScrapeAttempt(sc_result, Len(sc_fetches), sc_max_retries,
                                 extract_retailer_urls(fetch))
       IN  /\ sc_fetches' = Append(sc_fetches, fetch)
           /\ sc_result' = pass.result
           /\ sc_pc' = IF pass.done THEN "returned" ELSE "looping"
  /\ UNCHANGED <<sc_max_retries, coreVars, extractVars, batchVars, pipeVars, collVars>>

ScrapeNext == Attempt

ScrapeSpec == ScrapeInit /\ [][ScrapeNext]_vars

\* The worker thread that runs scrape_single_url is not held up for ever:
\* a pass of the loop that can be made is made.
ScrapeFairSpec == ScrapeSpec /\ WF_vars(Attempt)

\* ---- scraping many pages in parallel ----
\* The longest list of URLs.
MaxUrls == 3

GoogleUrlC == Str("https://www.google.com/shopping/product/3")

\* The lists of distinct aggregator URLs, the empty one included.
UrlLists ==
  {urls \in UNION {[1..n -> {GoogleUrlA, GoogleUrlB, GoogleUrlC}] :
                     n \in 0..MaxUrls} :
     \A i \in 1..Len(urls), j \in 1..Len(urls) : urls[i] = urls[j] => i = j}

\* max_retries as extract_direct_links_for_products passes it.
BatchRetries == 1

BatchInit ==
  /\ ps_urls \in UrlLists
  /\ ps_futures = [i \in 1..Len(ps_urls) |-> Null]
  /\ ps_collected = {}
  /\ ps_results = NewScrapeResults(ps_urls)
  /\ ps_pc = "collecting"
  /\ CoreIdle /\ ExtractIdle /\ ScrapeIdle /\ PipeIdle /\ CollIdle

\* A worker thread returns from scrape_single_url.  Every future is
\* submitted before the first is collected, and max_workers (20) is not
\* below the number of URLs, so the futures finish in any order.
WorkerReturns(i) ==
  /\ ps_pc = "collecting" /\ ps_futures[i] = Null
  /\ \E fetches \in [1..(BatchRetries + 1) -> Fetches] :
       ps_futures' =
         [ps_futures EXCEPT ![i] =
            scrape_single_url(ps_urls[i], BatchRetries, fetches)]
  /\ UNCHANGED <<ps_urls, ps_collected, ps_results, ps_pc, coreVars,
                 extractVars, scrapeVars, pipeVars, collVars>>

\* as_completed hands out a finished future; its result is recorded under
\* the lock.
CollectResult(i) ==
  /\ ps_pc = "collecting" /\ ps_futures[i] # Null /\ i \notin ps_collected
  /\ ps_results' = RecordResult(ps_results, ps_futures[i])
  /\ ps_collected' = ps_collected \cup {i}
  /\ UNCHANGED <<ps_urls, ps_futures, ps_pc, coreVars, extractVars, scrapeVars, pipeVars, collVars>>

\* All futures are collected: the summary is printed and results returned.
\* The percentages of the summary divide by len(urls): for an empty list
\* the call raises ZeroDivisionError.
BatchReturn ==
  /\ ps_pc = "collecting" /\ ps_collected = 1..Len(ps_urls)
  /\ ps_pc' = IF ps_urls = <<>> THEN "raised" ELSE "returned"
  /\ UNCHANGED <<ps_urls, ps_futures, ps_collected, ps_results, coreVars,
                 extractVars, scrapeVars, pipeVars, collVars>>

BatchNext ==
  \/ \E i \in 1..Len(ps_urls) : WorkerReturns(i)
  \/ \E i \in 1..Len(ps_urls) : CollectResult(i)
  \/ BatchReturn

BatchSpec == BatchInit /\ [][BatchNext]_vars

(***************************************************************************)
(* The orchestrator (outfit_recommendation_with_cleaned_data, which calls  *)
(* outfit_recommendation_with_redo for its first three stages).  The rows  *)
(* of the CSV file (results_data, num_products_found) are left out.        *)
(***************************************************************************)
\* The result dict: a key it does not have is Absent.
NoResult ==
  [k |-> "dict", error |-> Absent, raw_response |-> Absent,
   conversation_context |-> Absent, num_items_identified |-> Absent,
   search_queries |-> Absent, results_saved_to |-> Absent,
   raw_results_saved_to |-> Absent, raw_results_data |-> Absent,
   direct_links_extracted |-> Absent, direct_links_error |-> Absent,
   cleaned_data |-> Absent, cleaned_results_saved_to |-> Absent]

\* WithContext that leaves the context out of an error result.
WithContext_success_only(result, enable_redo, conversation_context) ==
  IF enable_redo /\ conversation_context # Null /\ result.error = Absent
    THEN [result EXCEPT !.conversation_context = conversation_context]
    ELSE result

\* result["conversation_context"] = conversation_context, if redo is on.
WithContext(result, enable_redo, conversation_context) ==
  IF enable_redo /\ conversation_context # Null
    THEN [result EXCEPT !.conversation_context = conversation_context]
    ELSE result

\* What the shopping API does for one query of a run: it raises, or it
\* answers with products that have an aggregator URL, a retailer URL, or
\* one of each.
PipeApiOutcomes ==
  LET priced   == [EmptyProduct EXCEPT !.extracted_price = Num(8000),
                                       !.product_link = GoogleUrlA]
      negative == [EmptyProduct EXCEPT !.extracted_price = Num(-500),
                                       !.link = Str("https://shop.example/item")]
  IN  {[raises |-> TRUE, response |-> Absent]} \cup
      {[raises |-> FALSE,
        response |-> [error |-> Absent, original_query |-> Absent,
                      shopping_results |-> List(l)]] :
         l \in {<<priced>>, <<negative>>, <<priced, negative>>}}

\* The orders in which n futures can complete.
CompletionOrders(n) ==
  {order \in [1..n -> 1..n] : \A i, j \in 1..n : order[i] = order[j] => i = j}

\* One entry of pl_log: a message handed to the progress hook, or a call of
\* one of the functions that do the work of a stage.
Notice(message) == [ev |-> "notify", what |-> message, arg |-> Null]

CallOf(function, arg) == [ev |-> "call", what |-> function, arg |-> arg]

\* update_progress(message): the hook is called when there is one.
update_progress(progress_callback, message) ==
  IF progress_callback THEN <<Notice(message)>> ELSE <<>>

\* search_items_parallel with a second task for every query whose call raised.
search_items_parallel_retries_failed(search_queries, outcomes, order) ==
  LET calls == [i \in 1..Len(search_queries) |->
                  CallOf("search_shopping_item", Num(i))]
  IN  [calls   |-> calls \o SelectSeq(calls, LAMBDA c : outcomes[c.arg.v].raises),
       results |-> [i \in 1..Len(search_queries) |->
                      search_shopping_item(search_queries[order[i]].v,
                                           outcomes[order[i]])]]

\* search_items_parallel(queries), given what the shopping API does for each
\* query and the order in which the futures complete: one task is submitted
\* for each entry of queries, and the results are in completion order.
search_items_parallel(search_queries, outcomes, order) ==
  [calls   |-> [i \in 1..Len(search_queries) |->
                  CallOf("search_shopping_item", Num(i))],
   results |-> [i \in 1..Len(search_queries) |->
                  search_shopping_item(search_queries[order[i]].v,
                                       outcomes[order[i]])]]

\* The fetches of the pages of the direct-link stage, page after page.
RECURSIVE FetchCalls(_, _)
FetchCalls(urls, page_results) ==
  IF urls = {} THEN <<>>
  ELSE LET url == CHOOSE u \in urls : TRUE
       IN  [n \in 1..page_results[url].attempts |->
              CallOf("extract_retailer_urls", Str(url))]
           \o FetchCalls(urls \ {url}, page_results)

\* The arguments of a run; progress_callback is TRUE when a hook is given.
PipeArgs ==
  [image_path : ImagePaths, output_path : {Null, Str("outfit.csv")},
   enable_redo : BOOLEAN, save_raw_json : BOOLEAN,
   save_cleaned_json : BOOLEAN, extract_direct_links : BOOLEAN,
   progress_callback : BOOLEAN]

PipeInit ==
  /\ pl_args \in PipeArgs
  /\ pl_trace = <<>>
  /\ pl_queries = Null /\ pl_context = Null
  /\ pl_result = Null /\ pl_cleaned = Null
  /\ pl_failures = {}
  /\ pl_log = <<>> /\ pl_search_results = Null
  /\ CoreIdle /\ ExtractIdle /\ ScrapeIdle /\ BatchIdle /\ CollIdle

\* The stage the run is in.
Stage == IF pl_trace = <<>> THEN "Start" ELSE pl_trace[Len(pl_trace)]

\* The hook is told of the identification, and step 1 of
\* outfit_recommendation_with_redo follows: the queries are extracted; an
\* error dict or an empty list ends the run with an error result.  In redo
\* mode an error dict found under "queries" is itself made the result and
\* gets the context attached, which holds that dict: the model keeps the
\* context as create_search_query_gemini returned it.
Identify ==
  /\ Stage = "Start"
  /\ \E api \in ModelReplies :
       LET query_result ==
             create_search_query_gemini(pl_args.image_path,
                                        pl_args.enable_redo, api)
           search_queries ==
             IF ~pl_args.enable_redo THEN query_result
             ELSE IF query_result.queries = Absent THEN List(<<>>)
             ELSE query_result.queries
           conversation_context ==
             IF pl_args.enable_redo THEN query_result ELSE Null
           failed ==
             IF IsDict(search_queries) /\ search_queries.error # Absent
               THEN [NoResult EXCEPT
                       !.error = search_queries.error,
                       !.raw_response = search_queries.raw_response]
               ELSE [NoResult EXCEPT !.error =
                       Str("No clothing items identified in the image")]
       IN  /\ CreateCallsModel(pl_args.image_path) \/ api = ApiRaises
           /\ pl_queries' = search_queries
           /\ pl_context' = conversation_context
           /\ IF IsDict(search_queries) \/ search_queries.v = <<>>
                THEN /\ pl_result' = WithContext(failed, pl_args.enable_redo,
                                                 conversation_context)
                     /\ pl_trace' = <<"Identifying", "Failed">>
                ELSE /\ pl_result' = Null
                     /\ pl_trace' = <<"Identifying">>
           /\ pl_log' =
                update_progress(pl_args.progress_callback,
                                "Identifying clothing items...")
                \o <<CallOf("create_search_query_gemini",
                            Str(pl_args.image_path))>>
                \o (IF CreateCallsModel(pl_args.image_path)
                      THEN <<CallOf("generate_content", Null)>> ELSE <<>>)
  /\ UNCHANGED <<pl_args, pl_cleaned, pl_failures, pl_search_results,
                 coreVars, extractVars, scrapeVars, batchVars, collVars>>

\* Steps 2 to 5 of outfit_recommendation_with_redo: the searches, in the
\* order they complete, the raw JSON file and the CSV file.  A CSV file that
\* cannot be written makes the result an error dict, which
\* outfit_recommendation_with_cleaned_data returns as it is (line 1410).
\* Without an output_path the save functions build a file name with
\* datetime.datetime.now(), where datetime is the class imported at line 22:
\* the AttributeError is raised outside their try blocks and ends the run.
Search ==
  /\ Stage = "Identifying"
  /\ \E outcomes \in [1..Len(pl_queries.v) -> PipeApiOutcomes],
        order \in CompletionOrders(Len(pl_queries.v)),
        raw_written \in BOOLEAN, csv_written \in BOOLEAN :
       LET searched ==
             search_items_parallel(pl_queries.v, outcomes, order)
           search_results == searched.results
           raw_json_path ==
             IF pl_args.save_raw_json /\ raw_written
               THEN Str("outfit_raw.json") ELSE Null
           saved ==
             IF csv_written
               THEN [NoResult EXCEPT
                       !.num_items_identified = Len(pl_queries.v),
                       !.search_queries = pl_queries,
                       !.results_saved_to = Str("outfit.csv"),
                       !.raw_results_data =
                         IF raw_json_path # Null THEN List(search_results)
                         ELSE Absent]
               ELSE [NoResult EXCEPT
                       !.error = Str("Failed to save CSV results")]
           with_path ==
             IF raw_json_path # Null
               THEN [saved EXCEPT !.raw_results_saved_to = raw_json_path]
               ELSE saved
       IN  /\ pl_args.save_raw_json \/ raw_written
           /\ pl_args.output_path = Null => raw_written /\ csv_written
           /\ pl_result' =
                IF pl_args.output_path = Null THEN Null
                ELSE WithContext(with_path, pl_args.enable_redo, pl_context)
           /\ pl_trace' =
                IF pl_args.output_path = Null
                  THEN pl_trace \o <<"Searching", "Raised">>
                ELSE IF csv_written THEN Append(pl_trace, "Searching")
                ELSE pl_trace \o <<"Searching", "Failed">>
           /\ pl_failures' =
                (IF \E i \in 1..Len(pl_queries.v) : outcomes[i].raises
                   THEN {"search"} ELSE {})
                \cup (IF raw_written THEN {} ELSE {"raw_write"})
                \cup (IF csv_written THEN {} ELSE {"csv_write"})
           /\ pl_log' = pl_log \o searched.calls
           /\ pl_search_results' = List(search_results)
  /\ UNCHANGED <<pl_args, pl_queries, pl_context, pl_cleaned, coreVars,
                 extractVars, scrapeVars, batchVars, collVars>>

\* The hook is told of the cleaning, and
\* cleaned_data = clean_search_results_for_frontend(raw_results)
Clean ==
  /\ Stage = "Searching"
  /\ pl_cleaned' =
       clean_search_results_for_frontend(
         IF pl_result.raw_results_data = Absent THEN <<>>
         ELSE pl_result.raw_results_data.v)
  /\ pl_trace' = Append(pl_trace, "Cleaning")
  /\ pl_log' =
       pl_log
       \o update_progress(pl_args.progress_callback,
                          "Cleaning and organizing search results...")
       \o <<CallOf("clean_search_results_for_frontend", Null)>>
  /\ UNCHANGED <<pl_args, pl_queries, pl_context, pl_result, pl_failures,
                 pl_search_results, coreVars, extractVars, scrapeVars,
                 batchVars, collVars>>

\* The direct-link stage is entered.
LinksWanted ==
  pl_args.extract_direct_links /\ pl_cleaned.clothing_items # <<>>

\* The messages of the direct-link stage, shortened.
LinksStarted == "Extracting direct retailer links..."

LinksFailed ==
  "Direct link extraction failed, continuing without direct links..."

\* The hook is told of the direct-link stage and
\* extract_direct_links_for_products is called.  It returns the structure
\* with the links, or an exception escapes it: early, before a page is
\* fetched, or late, after the links were put into the products (the
\* structure is changed in place).  The scraping as a whole may raise too,
\* which the stage catches.
ExtractLinks ==
  /\ Stage = "Cleaning" /\ LinksWanted
  /\ \E stage_raises \in {"no", "early", "late"}, scrape_raises \in BOOLEAN,
        fetches \in [GoogleUrls(pl_cleaned) ->
                       [1..(BatchRetries + 1) -> Fetches]] :
       LET urls == GoogleUrls(pl_cleaned)
           hook == pl_args.progress_callback
           page_results ==
             [u \in urls |-> scrape_single_url(Str(u), BatchRetries, fetches[u])]
           scraped ==
             [u \in urls |->
                IF page_results[u].success
                  THEN List(page_results[u].retailer_urls) ELSE Absent]
           entered ==
             update_progress(hook, LinksStarted)
             \o <<CallOf("extract_direct_links_for_products", Null)>>
           scraping ==
             update_progress(hook, LinksStarted)
             \o update_progress(hook, "Extracting direct links from product pages...")
             \o <<CallOf("parallel_scrape_google_products", Null)>>
             \o FetchCalls(urls, page_results)
       IN  /\ stage_raises = "early" =>
                /\ ~scrape_raises
                /\ \A u \in urls, n \in 1..(BatchRetries + 1) :
                     fetches[u][n] = Fetch(0, <<>>)
           /\ stage_raises = "late" => ~scrape_raises /\ urls # {}
           /\ urls = {} => ~scrape_raises
           /\ pl_cleaned' =
                IF stage_raises = "early" THEN pl_cleaned
                ELSE extract_direct_links_for_products(pl_cleaned,
                                                       scrape_raises, scraped)
           /\ pl_result' =
                IF stage_raises # "no"
                  THEN [pl_result EXCEPT
                          !.direct_links_extracted = FALSE,
                          !.direct_links_error = Str("exception text")]
                  ELSE [pl_result EXCEPT !.direct_links_extracted = TRUE]
           /\ pl_failures' =
                pl_failures \cup
                (IF stage_raises # "no" \/ scrape_raises
                   THEN {"link_extraction"} ELSE {})
           /\ pl_log' =
                pl_log \o entered \o
                (CASE stage_raises = "early" -> update_progress(hook, LinksFailed)
                   [] stage_raises = "late" ->
                        scraping \o update_progress(hook, LinksFailed)
                   [] stage_raises = "no" /\ urls = {} ->
                        update_progress(hook, LinksStarted)
                        \o update_progress(hook,
                             "No Google Shopping URLs found for direct link extraction")
                   [] stage_raises = "no" /\ urls # {} /\ scrape_raises -> scraping
                   [] OTHER ->
                        scraping
                        \o update_progress(hook, "Direct link extraction complete"))
  /\ pl_trace' = Append(pl_trace, "LinkExtraction")
  /\ UNCHANGED <<pl_args, pl_queries, pl_context, pl_search_results, coreVars,
                 extractVars, scrapeVars, batchVars, collVars>>

\* The hook is told of the last stage, the cleaned JSON file is written and
\* cleaned_data is put in the result.
Finalize ==
  /\ \/ Stage = "LinkExtraction"
     \/ Stage = "Cleaning" /\ ~LinksWanted
  /\ \E cleaned_written \in BOOLEAN :
       LET marked ==
             IF Stage = "Cleaning"
               THEN [pl_result EXCEPT !.direct_links_extracted = FALSE]
               ELSE pl_result
       IN  /\ pl_args.save_cleaned_json \/ cleaned_written
           /\ pl_result' =
                [marked EXCEPT
                   !.cleaned_data = pl_cleaned,
                   !.cleaned_results_saved_to =
                     IF pl_args.save_cleaned_json /\ cleaned_written
                       THEN Str("outfit_cleaned.json") ELSE Absent]
           /\ pl_failures' =
                pl_failures \cup
                (IF cleaned_written THEN {} ELSE {"cleaned_write"})
  /\ pl_trace' = Append(pl_trace, "Finalizing")
  /\ pl_log' =
       pl_log
       \o update_progress(pl_args.progress_callback, "Finalizing results...")
       \o (IF pl_args.save_cleaned_json
             THEN <<CallOf("save_cleaned_results_to_json", Null)>> ELSE <<>>)
  /\ UNCHANGED <<pl_args, pl_queries, pl_context, pl_cleaned,
                 pl_search_results, coreVars, extractVars, scrapeVars,
                 batchVars, collVars>>

\* The hook is told of the end, and result is returned.
PipeReturn ==
  /\ Stage = "Finalizing"
  /\ pl_trace' = Append(pl_trace, "Done")
  /\ pl_log' =
       pl_log \o update_progress(pl_args.progress_callback,
                                 "Search and extraction complete!")
  /\ UNCHANGED <<pl_args, pl_queries, pl_context, pl_result, pl_cleaned,
                 pl_failures, pl_search_results, coreVars, extractVars,
                 scrapeVars, batchVars, collVars>>

PipeNext ==
  Identify \/ Search \/ Clean \/ ExtractLinks \/ Finalize \/ PipeReturn

PipeSpec == PipeInit /\ [][PipeNext]_vars

(***************************************************************************)
(* The collections of a user: the handlers of /api/collections in app.py   *)
(* and add_to_wishlist of database_service.py.  The table user_collections *)
(* is kept by the hosted database; the model holds the rows of one user,   *)
(* each with its id, its name and the saved items put into it.  An insert, *)
(* update or delete the database refuses raises in the client and is       *)
(* caught by the function that issued it.                                  *)
(***************************************************************************)
MaxCollections == 3

CollectionNames == {"My Favorites", "my favorites", "Work", "work"}
ProductIds      == {"p1", "p2"}

\* What a request can carry under "name".
RequestNames == {Str(name) : name \in CollectionNames} \cup {Absent}

CollectionRow(id, name) == [id |-> id, name |-> name, items |-> {}]

\* any(collection['name'].lower() == name.lower() for collection in
\* existing_collections), the check of create_collection and
\* update_collection.
NameExists(existing_collections, name) ==
  \E collection \in existing_collections :
    Lower(collection.name) = Lower(name)

\* db_service.get_collection_by_id: the rows with the id, none or one.
get_collection_by_id(rows, collection_id) ==
  {collection \in rows : collection.id = collection_id}

\* db_service.get_default_collection: the rows whose name is exactly
\* "My Favorites"; the function takes the first the database returns.
get_default_collection(rows) ==
  {collection \in rows : collection.name = "My Favorites"}

\* db_service.add_item_to_collection on a row of rows.
add_item_to_collection(rows, collection_id, saved_item_id) ==
  {IF collection.id = collection_id
     THEN [collection EXCEPT !.items = @ \cup {saved_item_id}]
     ELSE collection : collection \in rows}

\* db_service.update_collection with a new name.
RenameRow(rows, collection_id, name) ==
  {IF collection.id = collection_id
     THEN [collection EXCEPT !.name = name]
     ELSE collection : collection \in rows}

\* POST /api/collections.  inserted: the database takes the row.
CreateCollection(name, inserted) ==
  /\ coll_next_id < MaxCollections
  /\ IF name = Absent
       THEN UNCHANGED <<collections, coll_next_id>>        \* 400
     ELSE IF NameExists(collections, name.v)
       THEN UNCHANGED <<collections, coll_next_id>>        \* 400
     ELSE IF ~inserted
       THEN UNCHANGED <<collections, coll_next_id>>        \* 500
     ELSE /\ collections' =
               collections \cup {CollectionRow(coll_next_id, name.v)}
          /\ coll_next_id' = coll_next_id + 1
  /\ UNCHANGED <<saved_items, coreVars, extractVars, scrapeVars, batchVars,
                 pipeVars>>

\* PUT /api/collections/<collection_id>.  name = Absent: the request
\* changes the description only.  updated: the database takes the update.
UpdateCollection(collection_id, name, updated) ==
  /\ LET found == get_collection_by_id(collections, collection_id)
     IN  IF found = {}
           THEN UNCHANGED collections                      \* 404
         ELSE LET existing_collection == CHOOSE c \in found : TRUE
              IN  IF /\ existing_collection.name = "My Favorites"
                     /\ name # Absent
                     /\ name.v # "My Favorites"
                    THEN UNCHANGED collections             \* 400
                  ELSE IF /\ name # Absent
                          /\ name.v # existing_collection.name
                          /\ NameExists(collections, name.v)
                    THEN UNCHANGED collections             \* 400
                  ELSE IF name = Absent \/ ~updated
                    THEN UNCHANGED collections
                  ELSE collections' =
                         RenameRow(collections, collection_id, name.v)
  /\ UNCHANGED <<coll_next_id, saved_items, coreVars, extractVars,
                 scrapeVars, batchVars, pipeVars>>

\* DELETE /api/collections/<collection_id>.
DeleteCollection(collection_id, deleted) ==
  /\ LET found == get_collection_by_id(collections, collection_id)
     IN  IF found = {}
           THEN UNCHANGED collections                      \* 404
         ELSE IF (CHOOSE c \in found : TRUE).name = "My Favorites"
           THEN UNCHANGED collections                      \* 400
         ELSE IF ~deleted
           THEN UNCHANGED collections
         ELSE collections' = collections \ found
  /\ UNCHANGED <<coll_next_id, saved_items, coreVars, extractVars,
                 scrapeVars, batchVars, pipeVars>>

\* db_service.add_to_wishlist.  saved: the product is found and the row of
\* user_saved_items is inserted; inserted: the database takes the row of the
\* default collection.
AddToWishlist(product_id, saved, inserted) ==
  /\ get_default_collection(collections) = {} =>
       coll_next_id < MaxCollections
  /\ IF product_id \in saved_items \/ ~saved
       THEN UNCHANGED <<collections, coll_next_id, saved_items>>
     ELSE /\ saved_items' = saved_items \cup {product_id}
          /\ IF get_default_collection(collections) # {}
               THEN /\ \E default_collection \in
                            get_default_collection(collections) :
                         collections' =
                           add_item_to_collection(collections,
                                                  default_collection.id,
                                                  product_id)
                    /\ UNCHANGED coll_next_id
             ELSE IF ~inserted
               THEN UNCHANGED <<collections, coll_next_id>>
             ELSE /\ collections' =
                       add_item_to_collection(
                         collections \cup
                           {CollectionRow(coll_next_id, "My Favorites")},
                         coll_next_id, product_id)
                  /\ coll_next_id' = coll_next_id + 1
  /\ UNCHANGED <<coreVars, extractVars, scrapeVars, batchVars, pipeVars>>

\* A new user: no collection, nothing saved.
CollectionInit ==
  /\ CoreIdle /\ ExtractIdle /\ ScrapeIdle /\ BatchIdle /\ PipeIdle
  /\ collections = {} /\ coll_next_id = 0 /\ saved_items = {}

CollectionNext ==
  \/ \E name \in RequestNames, inserted \in BOOLEAN :
       CreateCollection(name, inserted)
  \/ \E collection_id \in 0..(MaxCollections - 1), name \in RequestNames,
        updated \in BOOLEAN :
       UpdateCollection(collection_id, name, updated)
  \/ \E collection_id \in 0..(MaxCollections - 1), deleted \in BOOLEAN :
       DeleteCollection(collection_id, deleted)
  \/ \E product_id \in ProductIds, saved \in BOOLEAN, inserted \in BOOLEAN :
       AddToWishlist(product_id, saved, inserted)

CollectionSpec == CollectionInit /\ [][CollectionNext]_vars

(***************************************************************************)
(* Claims about the parallel shopping searcher                             *)
(***************************************************************************)
\* The shopping-search call of future f failed: the key is not configured,
\* the API raised, or the API answered with an error.
SearchFailed(f) ==
  \/ ~SERPAPI_KEY
  \/ api_outcome[f].raises
  \/ (~api_outcome[f].raises /\ api_outcome[f].response.error # Absent)

ResultsOf(f) == {i \in 1..Len(results) : results[i].future = f}

\* C1: whatever queries fail and in whatever order the workers complete,
\* search_items_parallel never raises and returns exactly one result set per
\* input query; the result set of a failing query carries an error and the
\* result set of every other query carries what the API delivered for it.
C1_PartialFailureIsolated ==
  /\ search_pc # "raised"
  /\ search_pc = "returned" =>
       /\ Len(results) = Len(queries)
       /\ \A f \in Futures :
            /\ Cardinality(ResultsOf(f)) = 1
            /\ \A i \in ResultsOf(f) :
                 IF SearchFailed(f)
                   THEN results[i].value.error # Absent
                   ELSE /\ results[i].value.error = Absent
                        /\ results[i].value.shopping_results =
                             api_outcome[f].response.shopping_results

\* C1 witness: three queries, only the second one's call raised, the other
\* two delivered products, and the results arrived out of submission order.
C1_Witness ==
  /\ search_pc = "returned"
  /\ Len(queries) = 3
  /\ SERPAPI_KEY
  /\ api_outcome[2].raises
  /\ ~SearchFailed(1) /\ ~SearchFailed(3)
  /\ results[1].future = 3
  /\ results[1].value.shopping_results # Absent

\* C2: every result set the search stage produced, failed or not, carries
\* the query it was made for in original_query.
C2_EveryResultTagged ==
  \A i \in 1..Len(results) :
    results[i].value.original_query = Str(queries[results[i].future])

(***************************************************************************)
(* Claims about the result cleaner                                         *)
(***************************************************************************)
\* The cleaner has run on raw_search_results.
Cleaned == clean_pc \in {"cleaned", "linked"}

\* Positions of the result sets that carry an error, or whose product list
\* is empty or missing.
FailedPositions ==
  {i \in 1..Len(raw_search_results) :
     \/ raw_search_results[i].error # Absent
     \/ raw_search_results[i].shopping_results = Absent
     \/ raw_search_results[i].shopping_results = List(<<>>)}

UsablePositions == (1..Len(raw_search_results)) \ FailedPositions

\* The place of position i among the positions of S, counted from 1.
Rank(S, i) == Cardinality({j \in S : j <= i})

\* The entry's query is the result set's original_query, where it has one.
FiledUnder(entry, result) ==
  result.original_query # Absent => entry.query = result.original_query

\* C3: every input result set lands in exactly one of the two outputs: one
\* that carries an error, or whose product list is empty or missing, has one
\* entry with its query in summary.error_items and none in clothing_items;
\* every other one has one clothing item and no error entry.  The entries
\* keep the order of the input.
C3_EachResultInOneOutput ==
  Cleaned =>
    LET error_items == cleaned_data.summary.error_items
        items       == cleaned_data.clothing_items
    IN  /\ Len(error_items) = Cardinality(FailedPositions)
        /\ Len(items) = Cardinality(UsablePositions)
        /\ \A i \in FailedPositions :
             FiledUnder(error_items[Rank(FailedPositions, i)],
                        raw_search_results[i])
        /\ \A i \in UsablePositions :
             FiledUnder(items[Rank(UsablePositions, i)], raw_search_results[i])
        /\ cleaned_data.summary.has_errors = (FailedPositions # {})
        /\ cleaned_data.summary.total_items = Len(items)

\* Two result sets, the first with an empty product list and the second
\* with products, have been cleaned into one error entry and one item.
C3_Witness ==
  /\ clean_pc = "cleaned"
  /\ Len(raw_search_results) = 2
  /\ raw_search_results[1].error = Absent
  /\ raw_search_results[1].shopping_results = List(<<>>)
  /\ raw_search_results[1].original_query = Str("slim jeans")
  /\ UsablePositions = {2}
  /\ raw_search_results[2].original_query = Str("blue running shoes")
  /\ Len(cleaned_data.clothing_items) = 1
  /\ cleaned_data.clothing_items[1].query = Str("blue running shoes")
  /\ Len(cleaned_data.summary.error_items) = 1
  /\ cleaned_data.summary.error_items[1].query = Str("slim jeans")

\* C4: for every cleaned clothing item, at the end of cleaning and after the
\* direct-link stage, total_products is the length of its products list.
C4_TotalProductsIsLength ==
  Cleaned =>
    \A i \in 1..Len(cleaned_data.clothing_items) :
      cleaned_data.clothing_items[i].total_products
        = Len(cleaned_data.clothing_items[i].products)

\* After the direct-link stage: a result list of two entries that both clean
\* to nothing has become an item without products, and a list of three
\* entries an item of three.
C4_Witness ==
  /\ clean_pc = "linked"
  /\ UsablePositions = {1, 2}
  /\ Len(raw_search_results[1].shopping_results.v) = 2
  /\ cleaned_data.clothing_items[1].total_products = 0
  /\ cleaned_data.clothing_items[2].total_products = 3
  /\ cleaned_data.clothing_items[2].products[1].direct_links # Absent

\* A product of the item has a price_numeric that is not null.
HasPricedProduct(item) ==
  \E j \in 1..Len(item.products) : item.products[j].price_numeric # Null

\* C5: for every cleaned clothing item, price_range is null if and only if
\* no product of its products list has a non-null price_numeric.
C5_PriceRangeNullIffNoPrice ==
  Cleaned =>
    \A i \in 1..Len(cleaned_data.clothing_items) :
      (cleaned_data.clothing_items[i].price_range = Null)
        <=> ~HasPricedProduct(cleaned_data.clothing_items[i])

\* The sum of total_products over the first n clothing items.
RECURSIVE ProductsInItems(_, _)
ProductsInItems(items, n) ==
  IF n = 0 THEN 0
  ELSE items[n].total_products + ProductsInItems(items, n - 1)

\* C30: the summary returned by clean_search_results_for_frontend agrees
\* with the lists next to it: total_items is the number of clothing items,
\* total_products the sum of the items' total_products, has_errors is true
\* exactly when error_items is not empty, and total_items plus the number of
\* error_items is the number of input result sets.
C30_SummaryAgreesWithLists ==
  Cleaned =>
    LET summary == cleaned_data.summary
        items   == cleaned_data.clothing_items
    IN  /\ summary.total_items = Len(items)
        /\ summary.total_products = ProductsInItems(items, Len(items))
        /\ summary.has_errors = (summary.error_items # <<>>)
        /\ summary.total_items + Len(summary.error_items)
             = Len(raw_search_results)

\* Two result sets have been cleaned: an item of two products and one error
\* entry.
C30_Witness ==
  /\ clean_pc = "cleaned"
  /\ Len(raw_search_results) = 2
  /\ cleaned_data.summary.total_items = 1
  /\ cleaned_data.clothing_items[1].total_products = 2
  /\ cleaned_data.summary.total_products = 2
  /\ cleaned_data.summary.has_errors
  /\ Len(cleaned_data.summary.error_items) = 1

(***************************************************************************)
(* Claims about per-product cleaning                                       *)
(***************************************************************************)
\* clean_single_product has returned a cleaned product.
ProductCleaned == prod_pc = "cleaned" /\ prod_cleaned # Null

\* The raw ratings that lie outside [0, 5] or are no number at all.
BadRatings ==
  {Num(-100), Num(501), Num(730), Str("6"), Str("abc"), Str("4.5 stars"),
   Other}

\* The raw review counts that are negative or no whole number at all.
BadReviews == {Num(-300), Str("1,234"), Str("4.5"), Str("-7"), Other}

ExplicitPercent(text) ==
  CASE text = Str("20% OFF")             -> "20"
    [] text = Str("Save 015% off today") -> "015"
    [] text = Str("30% off")             -> "30"
    [] OTHER                             -> ""

\* The tag and the extensions of the raw product, in that order.
DiscountTexts ==
  <<prod_raw.tag>>
    \o (IF prod_raw.extensions = Absent THEN <<>> ELSE prod_raw.extensions.v)

\* The N of the first tag or extension that states a discount, or "".
ExplicitDiscount ==
  LET stated == {i \in 1..Len(DiscountTexts) :
                   ExplicitPercent(DiscountTexts[i]) # ""}
  IN  IF stated = {} THEN ""
      ELSE ExplicitPercent(
             DiscountTexts[CHOOSE i \in stated : \A j \in stated : i <= j])

\* n is (old - new) / old * 100 rounded to a nearest whole number.
IsRoundedDiscount(n, new, old) ==
  LET twice == 2 * (n * old - 100 * (old - new))
  IN  -old <= twice /\ twice <= old

\* C7: discount_percentage is the "N% OFF" of an explicit tag or extension
\* when there is one; otherwise, when both numeric prices are present and
\* the old price is greater than the new one, round((old-new)/old*100)
\* followed by "% OFF"; otherwise null.  80 and 100 give "20% OFF".
C7_DiscountPercentage ==
  ProductCleaned =>
    LET new == prod_cleaned.price_numeric
        old == prod_cleaned.old_price_numeric
    IN  /\ IF ExplicitDiscount # ""
             THEN prod_cleaned.discount_percentage
                    = Str(ExplicitDiscount \o "% OFF")
           ELSE IF new # Null /\ old # Null /\ old.v > new.v
             THEN \E n \in 0..200 :
                    /\ IsRoundedDiscount(n, new.v, old.v)
                    /\ prod_cleaned.discount_percentage
                         = Str(IntToStr(n) \o "% OFF")
           ELSE prod_cleaned.discount_percentage = Null
        /\ (ExplicitDiscount = "" /\ new = Num(8000) /\ old = Num(10000))
             => prod_cleaned.discount_percentage = Str("20% OFF")

\* A product priced 80, formerly 100, without any tag or extension has been
\* cleaned and carries "20% OFF".
C7_Witness ==
  /\ ProductCleaned
  /\ prod_raw.tag = Absent /\ prod_raw.extensions = Absent
  /\ prod_cleaned.price_numeric = Num(8000)
  /\ prod_cleaned.old_price_numeric = Num(10000)
  /\ prod_cleaned.discount_percentage = Str("20% OFF")

(***************************************************************************)
(* Claims about the item-type classifier                                   *)
(***************************************************************************)
\* The query of form 1 (singular) or 2 (plural) has been classified, and
\* the token it got.
Classified(form) ==
  IF form = 1 THEN cl_singular_type # "" ELSE cl_plural_type # ""

TokenOf(form) == IF form = 1 THEN cl_singular_type ELSE cl_plural_type

\* The lower-case text of the classified queries, with the form of each.
ClassifiedQueries ==
  {<<form, Lower(QueryText(form))>> : form \in {f \in {1, 2} : Classified(f)}}

\* The entries of the multi-word table whose phrase the text contains.
PhrasesIn(text) ==
  {i \in 1..Len(multi_word_patterns) : Contains(text, multi_word_patterns[i][1])}

\* C8 (as the code has it): a query that contains a phrase of the
\* multi-word table gets the token of the first table entry it contains,
\* whatever single words it also contains.
C8_FirstTablePhraseWins ==
  \A q \in ClassifiedQueries :
    \A hits \in {PhrasesIn(q[2])} :
      hits # {} =>
        \A first \in hits :
          (\A j \in hits : first <= j) =>
            TokenOf(q[1]) = multi_word_patterns[first][2]

\* "women's black leather bomber jacket" has been classified as a bomber
\* jacket.
C8_Witness ==
  /\ cl_prefix = <<"women's black leather", "bomber">>
  /\ NounForms[cl_noun][1] = "jacket"
  /\ cl_singular_type = "bomber_jacket"

\* C8 (as stated): a query that contains a phrase of the multi-word table
\* never gets a token of the single-word vocabulary.
C8_NeverVocabularyToken ==
  \A q \in ClassifiedQueries :
    PhrasesIn(q[2]) # {} => ~InClothingItems(TokenOf(q[1]))

\* C9: the query naming the item in the plural and the same query naming it
\* in the singular get the same token.
C9_PluralAndSingularAgree ==
  (Classified(1) /\ Classified(2)) => cl_plural_type = cl_singular_type

\* "blue running shoes" and "blue running shoe" have both been classified.
C9_Witness ==
  /\ cl_prefix = <<"blue", "running">>
  /\ NounForms[cl_noun] = <<"shoe", "shoes">>
  /\ Classified(1) /\ Classified(2)

(***************************************************************************)
(* Claims about query extraction and redo                                  *)
(***************************************************************************)
\* The extraction call has returned.
Extracted == ex_chain # <<>>

\* The query list, or the error value, of a returned value: under "queries"
\* in a conversation context, the value itself otherwise.
QueriesOf(result) ==
  IF IsDict(result) /\ result.queries # Absent THEN result.queries ELSE result

\* The value carries an error marker: an "error" key, its own or that of
\* the dict under "queries".
HasErrorMarker(result) ==
  \/ IsDict(result) /\ result.error # Absent
  \/ IsDict(QueriesOf(result)) /\ QueriesOf(result).error # Absent

\* The answers of the model that are an empty array, and those that hold no
\* JSON array at all.
EmptyArrayTexts == {"[]", " [ ] "}

UnparsableTexts == {"no clothing here", "I see [a shirt] here"}

\* The model was called and answered with one of these texts.
Answered(call, texts) ==
  call.called /\ ~call.api.raises /\ call.api.text # Null
    /\ call.api.text.v \in texts

\* The model was called and the call raised or came back without text.
ApiFailed(call) ==
  call.called /\ (call.api.raises \/ call.api.text = Null)

\* C11: when the model answers the initial extraction with an empty JSON
\* array, the call returns an empty query list without an error marker; when
\* the answer cannot be parsed, or the model API fails, the returned value
\* carries an error marker and is not an empty query list.
C11_EmptyListIsNotAnError ==
  Extracted =>
    /\ Answered(ex_calls[1], EmptyArrayTexts) =>
         QueriesOf(ex_chain[1]) = List(<<>>) /\ ~HasErrorMarker(ex_chain[1])
    /\ Answered(ex_calls[1], UnparsableTexts) \/ ApiFailed(ex_calls[1]) =>
         HasErrorMarker(ex_chain[1]) /\ QueriesOf(ex_chain[1]) # List(<<>>)

\* The model answered " [ ] " to an extraction in conversation mode, and the
\* context holds an empty query list.
C11_Witness ==
  /\ Extracted /\ ex_mode
  /\ Answered(ex_calls[1], {" [ ] "})
  /\ ex_chain[1].queries = List(<<>>)

\* The positions of ex_calls that are redos.
Redos == {i \in 1..Len(ex_calls) : ex_calls[i].fn = "redo"}

\* A conversation context of a successful extraction or redo: it holds a
\* query list and a history, and no error.
SuccessfulContext(context) ==
  /\ IsDict(context) /\ ~HasErrorMarker(context)
  /\ context.queries # Absent /\ context.queries.k = "list"
  /\ context.conversation_history # Absent

\* The two turns a redo adds: the feedback and the answer of the model.
TurnsOfRedo(call) ==
  <<Turn("user", <<IF call.feedback = Null THEN default_feedback
                   ELSE call.feedback.v>>),
    Turn("model", <<Strip(call.api.text.v)>>)>>

\* The history of redo i is the history of its context and the two turns.
AppendsTwoTurns(i) ==
  /\ IsDict(ex_chain[i]) /\ ex_chain[i].conversation_history # Absent
  /\ ex_chain[i].conversation_history.v =
       ex_calls[i].context.conversation_history.v \o TurnsOfRedo(ex_calls[i])
  /\ Len(ex_chain[i].conversation_history.v) =
       Len(ex_calls[i].context.conversation_history.v) + 2

\* The caller's values from before redo i are what the calls returned.
PriorUnmodified(i) ==
  /\ ex_chain[i - 1] = ex_calls[i].context
  /\ \A j \in Redos : j < i => ex_chain[j - 1] = ex_calls[j].context

\* C12: a redo on the context of a successful extraction, answered by the
\* model, returns the history of that context followed by one feedback turn
\* and one model turn (two turns longer), and leaves the caller's context and
\* the earlier ones as they were; the histories of successive redos are each
\* a prefix of the next.
C12_RedoAppendsTwoTurns ==
  \A i \in Redos :
    SuccessfulContext(ex_calls[i].context) /\ ~ApiFailed(ex_calls[i]) =>
      AppendsTwoTurns(i) /\ PriorUnmodified(i)

\* A redo on the context of a successful extraction that holds the query
\* "error" has returned.
C12_Witness ==
  \E i \in Redos :
    /\ SuccessfulContext(ex_calls[i].context)
    /\ ex_calls[i].context.queries = List(<<Str("error")>>)
    /\ ex_chain[i].conversation_history = Absent

\* C12, for the redos that reached the model: two redos in a row were
\* answered, and the three histories are 2, 4 and 6 turns long.
C12_AppendsWhereCalled ==
  \A i \in Redos :
    ex_calls[i].called /\ ~ApiFailed(ex_calls[i]) =>
      AppendsTwoTurns(i) /\ PriorUnmodified(i)

\* C13: a redo returns an error without calling the model when its context
\* is what a failed extraction or a failed redo returned, and it calls the
\* model when its context is that of a successful extraction, whatever
\* queries the context holds.
C13_RedoFailsFastOnFailedContext ==
  \A i \in Redos :
    /\ HasErrorMarker(ex_calls[i].context) =>
         ~ex_calls[i].called /\ HasErrorMarker(ex_chain[i])
    /\ SuccessfulContext(ex_calls[i].context) => ex_calls[i].called

\* A redo whose answer could not be parsed was handed to the next redo, and
\* that redo called the model.
C13_Witness ==
  \E i \in Redos :
    /\ i - 1 \in Redos /\ Answered(ex_calls[i - 1], UnparsableTexts)
    /\ HasErrorMarker(ex_calls[i].context)
    /\ ex_calls[i].called

\* The dict that holds the error of a returned value.
ErrorOf(result) ==
  IF IsDict(result) /\ result.error # Absent THEN result ELSE QueriesOf(result)

\* Call i failed: the image could not be read, the model API failed, or the
\* answer could not be parsed.
UnreadableImage(i) ==
  ex_calls[i].fn = "create" /\ ex_image # "" /\ ~ex_calls[i].called

CallFailed(i) ==
  \/ UnreadableImage(i)
  \/ ApiFailed(ex_calls[i])
  \/ Answered(ex_calls[i], UnparsableTexts)

\* C14: every failed extraction or redo (unreadable image, failing model
\* API, answer that is not JSON) returns a value with an error marker and
\* does not raise; after a parse failure the error holds, as raw_response,
\* the text the model answered.
C14_FailuresAreStructuredErrors ==
  \A i \in 1..Len(ex_calls) :
    CallFailed(i) =>
      /\ ex_chain[i] # Raises /\ HasErrorMarker(ex_chain[i])
      /\ Answered(ex_calls[i], UnparsableTexts) =>
           /\ ErrorOf(ex_chain[i]).raw_response # Absent
           /\ ErrorOf(ex_chain[i]).raw_response.v
                \in {ex_calls[i].api.text.v, Strip(ex_calls[i].api.text.v)}

\* The model answered prose with brackets in it, and the call returned an
\* error with a raw_response.
C14_Witness ==
  \E i \in 1..Len(ex_calls) :
    /\ Answered(ex_calls[i], {"I see [a shirt] here"})
    /\ HasErrorMarker(ex_chain[i])
    /\ ErrorOf(ex_chain[i]).raw_response # Absent

\* C14 without the raw_response: every failed call returns a value with an
\* error marker, and a parse failure records some raw_response.
C14_FailuresReturnErrors ==
  \A i \in 1..Len(ex_calls) :
    CallFailed(i) =>
      /\ ex_chain[i] # Raises /\ HasErrorMarker(ex_chain[i])
      /\ Answered(ex_calls[i], UnparsableTexts) =>
           ErrorOf(ex_chain[i]).raw_response # Absent

\* A context of a successful extraction or redo none of whose queries is
\* the text "error" (for that query see C13).
ReplayableContext(context) ==
  /\ SuccessfulContext(context)
  /\ \A q \in 1..Len(context.queries.v) : context.queries.v[q] # Str("error")

\* A stored turn, sent as it is.
SentAsStored(turn) ==
  Turn(turn.role, [p \in 1..Len(turn.parts) |-> Str(turn.parts[p])])

\* What a redo has to send: the first turn with the image of the context
\* and the prompt, the other stored turns as they are, and the feedback.
ExpectedReplay(call) ==
  LET stored == call.context.conversation_history.v
  IN  <<Turn("user", <<call.context.image_bytes, Str(stored[1].parts[2])>>)>>
      \o [n \in 1..(Len(stored) - 1) |-> SentAsStored(stored[n + 1])]
      \o <<Turn("user", <<Str(FeedbackText(call.feedback))>>)>>

\* The history a call returned, if any, starts with the placeholder turn.
KeepsPlaceholder(result) ==
  IsDict(result) /\ result.conversation_history # Absent
    /\ result.conversation_history.v # <<>> =>
      /\ result.conversation_history.v[1].parts[1] = "[IMAGE_DATA]"
      /\ result.conversation_history.v[1].parts[2] = user_prompt

\* C29: every redo on the context of a successful call replays to the model
\* the stored conversation with the image bytes of the context and the
\* prompt in its first turn, every other turn as stored, and the feedback
\* turn as given, whatever the feedback text is; the history it returns
\* keeps the placeholder in place of the image.
C29_ReplayCarriesImage ==
  \A i \in Redos :
    ReplayableContext(ex_calls[i].context) =>
      /\ ex_calls[i].called
      /\ ex_calls[i].contents.v = ExpectedReplay(ex_calls[i])
      /\ KeepsPlaceholder(ex_chain[i])

\* A redo whose feedback text holds "[IMAGE_DATA]" was made on the context
\* of a successful extraction: it returned an error and sent nothing.
C29_Witness ==
  \E i \in Redos :
    /\ ReplayableContext(ex_calls[i].context)
    /\ ex_calls[i].feedback # Null
    /\ Contains(ex_calls[i].feedback.v, "[IMAGE_DATA]")
    /\ ~ex_calls[i].called /\ HasErrorMarker(ex_chain[i])

\* C29 for the redos that reached the model: what was sent is the stored
\* conversation with the image in its first turn and the feedback turn, and
\* the returned history keeps the placeholder.
C29_ReplayWhereSent ==
  \A i \in Redos :
    ex_calls[i].called =>
      /\ ex_calls[i].contents.v = ExpectedReplay(ex_calls[i])
      /\ ex_calls[i].contents.v[1].parts[1] = ImageBytes(ex_image)
      /\ KeepsPlaceholder(ex_chain[i])

\* The positions of ex_chain that hold a conversation context.
Contexts ==
  {i \in 1..Len(ex_chain) :
     IsDict(ex_chain[i]) /\ ex_chain[i].conversation_history # Absent}

\* The context holds the bytes of an image.
HoldsImage(context) ==
  context.image_bytes # Absent /\ context.image_bytes.k = "bytes"

\* The stored history has the placeholder where the image was, and none of
\* its parts is the image.
HistoryWithoutImage(context) ==
  LET history == context.conversation_history.v
  IN  /\ history # <<>> => history[1].parts[1] = "[IMAGE_DATA]"
      /\ HoldsImage(context) =>
           \A n \in 1..Len(history) :
             \A p \in 1..Len(history[n].parts) :
               history[n].parts[p] # context.image_bytes.v

LinkFetches ==
  {i \in 1..Len(sc_fetches) : extract_retailer_urls(sc_fetches[i]).v # <<>>}

RateLimitedFetches == {i \in 1..Len(sc_fetches) : sc_fetches[i].status = 429}

HttpErrorFetches ==
  {i \in 1..Len(sc_fetches) :
     sc_fetches[i].status >= 400 /\ sc_fetches[i].status # 429}

\* C15: when a fetch is answered with HTTP 429 and a later fetch within the
\* retry budget returns retailer links, the result has success = true,
\* attempts equal to the number of fetches made, and rate_limited = true.
C15_RateLimitThenSuccess ==
  (\E i \in RateLimitedFetches, j \in LinkFetches : i < j) =>
    /\ sc_pc = "returned"
    /\ sc_result.success
    /\ sc_result.attempts = Len(sc_fetches)
    /\ sc_result.rate_limited

\* max_retries is 2, the first fetch was answered with 429, the second with
\* links, and scrape_single_url has returned.
C15_Witness ==
  /\ sc_pc = "returned" /\ sc_max_retries = 2
  /\ Len(sc_fetches) = 2
  /\ 1 \in RateLimitedFetches /\ 2 \in LinkFetches
  /\ sc_result.success /\ sc_result.attempts = 2

\* C16: a fetch answered with an HTTP error other than 429 ends the scrape
\* of the URL: it is the last fetch, attempts is its number, and the result
\* is a failure.
C16_HttpErrorIsTerminal ==
  \A i \in HttpErrorFetches :
    /\ i = Len(sc_fetches)
    /\ sc_pc = "returned"
    /\ sc_result.attempts = i
    /\ ~sc_result.success /\ sc_result.error # Null

\* The first fetch was answered with HTTP 500 and the loop goes on.
C16_Witness ==
  /\ 1 \in HttpErrorFetches
  /\ sc_max_retries > 0
  /\ sc_pc = "looping"

\* The result scrape_single_url returned is well formed for its budget.
WellFormedResult ==
  /\ sc_result.success => sc_result.retailer_urls # <<>>
  /\ ~sc_result.success => sc_result.error # Null
  /\ sc_result.attempts \in 1..(sc_max_retries + 1)
  /\ LinkFetches = {} =>
       sc_result.attempts = sc_max_retries + 1 /\ ~sc_result.success

ProductPositions ==
  UNION {{<<i, j>> : j \in 1..Len(cleaned_data.clothing_items[i].products)} :
         i \in 1..Len(cleaned_data.clothing_items)}

ProductAt(pos) == cleaned_data.clothing_items[pos[1]].products[pos[2]]

\* The products with an aggregator URL, and the others.
AggregatorPositions ==
  {pos \in ProductPositions : IsGoogleUrl(ProductAt(pos).product_url)}

OtherPositions == ProductPositions \ AggregatorPositions

\* C17: after the direct-link stage every product whose product_url is
\* absent or is not an aggregator URL has an empty direct_links list, also
\* when other products of the input have aggregator URLs.
C17_NonAggregatorLinksEmpty ==
  clean_pc = "linked" =>
    \A pos \in OtherPositions : ProductAt(pos).direct_links = List(<<>>)

\* The stage has scraped for an input that has products with and without
\* aggregator URLs.
C17_Witness ==
  /\ clean_pc = "linked" /\ ~scraping_results.raised
  /\ AggregatorPositions # {} /\ OtherPositions # {}

\* The scrape of the page of an aggregator product failed, as a whole or for
\* that page.
PageFailed(pos) ==
  \/ scraping_results.raised
  \/ scraping_results.pages[ProductAt(pos).product_url.v] = Absent

\* C18: after the direct-link stage every product with an aggregator URL has
\* a direct_links list: one link record per retailer URL of the scrape of
\* its page, in order, when the scrape succeeded, the empty list when it
\* failed; products that share an aggregator URL have the same list.
C18_SharedPageSharedLinks ==
  clean_pc = "linked" =>
    /\ \A pos \in AggregatorPositions :
         LET direct_links == ProductAt(pos).direct_links
             retailer_urls ==
               scraping_results.pages[ProductAt(pos).product_url.v].v
         IN  /\ direct_links.k = "list"
             /\ PageFailed(pos) => direct_links.v = <<>>
             /\ ~PageFailed(pos) =>
                  /\ Len(direct_links.v) = Len(retailer_urls)
                  /\ \A i \in 1..Len(retailer_urls) :
                       direct_links.v[i].retailer_url = retailer_urls[i]
    /\ \A pos \in AggregatorPositions, other \in AggregatorPositions :
         ProductAt(pos).product_url = ProductAt(other).product_url =>
           ProductAt(pos).direct_links = ProductAt(other).direct_links

\* Two products of one item share an aggregator URL whose page gave two
\* retailer URLs, and both have the two link records.
C18_Witness ==
  /\ clean_pc = "linked" /\ ~scraping_results.raised
  /\ \E pos \in AggregatorPositions, other \in AggregatorPositions :
       /\ pos # other
       /\ ProductAt(pos).product_url = ProductAt(other).product_url
       /\ Len(ProductAt(pos).direct_links.v) = 2
       /\ Len(ProductAt(other).direct_links.v) = 2

(***************************************************************************)
(* Claims about scraping many pages in parallel                            *)
(***************************************************************************)
\* The attempts of the scrapes of the first n URLs, added up.
RECURSIVE AttemptsUpTo(_)
AttemptsUpTo(n) ==
  IF n = 0 THEN 0 ELSE AttemptsUpTo(n - 1) + ps_futures[n].attempts

\* The URLs of the list.
InputUrls == {ps_urls[i] : i \in 1..Len(ps_urls)}

\* C19: for a non-empty list of distinct URLs, whatever the order in which
\* the workers finish and whichever URLs fail, the call ends with every URL
\* in exactly one of successful and failed, the two counts adding up to
\* total_urls, and total_requests the sum of the attempts of the URLs; a
\* URL that was scraped successfully is recorded with its retailer URLs
\* whatever happened to the others.
C19_EveryUrlAccounted ==
  ps_pc = "returned" =>
    /\ (DOMAIN ps_results.successful) \cup (DOMAIN ps_results.failed) = InputUrls
    /\ (DOMAIN ps_results.successful) \cap (DOMAIN ps_results.failed) = {}
    /\ ps_results.stats.successful_count = Cardinality(DOMAIN ps_results.successful)
    /\ ps_results.stats.failed_count = Cardinality(DOMAIN ps_results.failed)
    /\ ps_results.stats.successful_count + ps_results.stats.failed_count
         = ps_results.stats.total_urls
    /\ ps_results.stats.total_urls = Len(ps_urls)
    /\ ps_results.stats.total_requests = AttemptsUpTo(Len(ps_urls))
    /\ \A i \in 1..Len(ps_urls) :
         IF ps_futures[i].success
           THEN /\ ps_urls[i] \in DOMAIN ps_results.successful
                /\ ps_results.successful[ps_urls[i]] = ps_futures[i].retailer_urls
           ELSE /\ ps_urls[i] \in DOMAIN ps_results.failed
                /\ ps_results.failed[ps_urls[i]] = ps_futures[i].error

\* Three URLs were scraped with five fetches, the second failed, and
\* the other two are recorded as successful.
C19_Witness ==
  /\ ps_pc = "returned" /\ Len(ps_urls) = 3
  /\ ~ps_futures[2].success
  /\ ps_futures[1].success /\ ps_futures[3].success
  /\ ps_results.stats.failed_count = 1
  /\ ps_results.stats.total_requests = 5

(***************************************************************************)
(* Claims about the orchestrator                                           *)
(***************************************************************************)
\* The stages in their order, and the place of a stage in it.
StageOrder ==
  <<"Identifying", "Searching", "Cleaning", "LinkExtraction", "Finalizing",
    "Done">>

StageRank(stage) == CHOOSE r \in 1..Len(StageOrder) : StageOrder[r] = stage

\* The stages entered, without the outcomes Failed and Raised.
StagesEntered ==
  SelectSeq(pl_trace, LAMBDA stage : stage \notin {"Failed", "Raised"})

\* The run goes through the stages in order, from the first, entering none
\* twice and skipping none but LinkExtraction.
StagesInOrder ==
  /\ StagesEntered # <<>> => StagesEntered[1] = "Identifying"
  /\ \A i \in 1..(Len(StagesEntered) - 1) :
       \/ StageRank(StagesEntered[i + 1]) = StageRank(StagesEntered[i]) + 1
       \/ StagesEntered[i] = "Cleaning" /\ StagesEntered[i + 1] = "Finalizing"

\* Stage 1 gave no queries or an error.
StageOneFailed ==
  pl_queries # Null /\ (IsDict(pl_queries) \/ pl_queries.v = <<>>)

\* C20: a run enters the stages Identifying, Searching, Cleaning,
\* LinkExtraction (optional), Finalizing, Done in this order and none twice;
\* it ends in Failed only when stage 1 gives no queries or an error, and
\* never after a failure of a later stage (a failed search, a file that
\* could not be written, a failed link extraction).
C20_FailedOnlyFromStageOne ==
  /\ StagesInOrder
  /\ Stage = "Failed" => StageOneFailed /\ pl_result.cleaned_data = Absent
  /\ pl_failures # {} => Stage # "Failed"

\* The queries were extracted and searched, the CSV file could not be
\* written, and the run ended with an error result.
C20_Witness ==
  /\ Stage = "Failed" /\ ~StageOneFailed
  /\ "csv_write" \in pl_failures
  /\ pl_result.error # Absent /\ pl_result.cleaned_data = Absent

\* C20 without the CSV file: the stages are entered in order, a run whose
\* stage 1 fails ends in Failed at once, and no other failure than that of
\* the CSV file ends a run in Failed.
C20_StagesInOrderApartFromCsv ==
  /\ StagesInOrder
  /\ StageOneFailed => pl_trace = <<"Identifying", "Failed">>
  /\ Stage = "Failed" => StageOneFailed \/ "csv_write" \in pl_failures

\* The positions of pl_log that hold the search call for query i.
SearchCalls(i) ==
  {n \in 1..Len(pl_log) : pl_log[n] = CallOf("search_shopping_item", Num(i))}

\* The positions of pl_log that hold a call made at another position too.
RepeatedCalls ==
  {n \in 1..Len(pl_log) :
     /\ pl_log[n].ev = "call"
     /\ \E m \in 1..Len(pl_log) : m # n /\ pl_log[m] = pl_log[n]}

\* The search stage of the run is over.
Searched == pl_search_results # Null

\* C21: in one run the shopping search is called exactly once for each
\* extracted query, also for a query whose search failed; no stage is
\* entered twice, and the only calls made more than once are the fetches of
\* the pages of the direct-link stage.
C21_EachQuerySearchedOnce ==
  /\ \A n \in 1..Len(pl_log) :
       pl_log[n].what = "search_shopping_item" =>
         Searched /\ pl_log[n].arg.v \in 1..Len(pl_queries.v)
  /\ Searched =>
       \A i \in 1..Len(pl_queries.v) : Cardinality(SearchCalls(i)) = 1
  /\ \A n \in RepeatedCalls : pl_log[n].what = "extract_retailer_urls"
  /\ \A i, j \in 1..Len(StagesEntered) :
       StagesEntered[i] = StagesEntered[j] => i = j

\* A run is done in which a search failed and a page was fetched twice.
C21_Witness ==
  /\ Stage = "Done" /\ "search" \in pl_failures
  /\ \E i \in 1..Len(pl_search_results.v) :
       pl_search_results.v[i].error # Absent /\ Cardinality(SearchCalls(i)) = 1
  /\ RepeatedCalls # {}

\* The cleaned structure without the direct links of its products.
WithoutLinks(data) ==
  [data EXCEPT !.clothing_items =
     [i \in 1..Len(data.clothing_items) |->
        [data.clothing_items[i] EXCEPT !.products =
           [j \in 1..Len(data.clothing_items[i].products) |->
              [data.clothing_items[i].products[j] EXCEPT
                 !.direct_links = Absent]]]]]

\* The products of a cleaned structure.
ProductsOf(data) ==
  UNION {{data.clothing_items[i].products[j] :
            j \in 1..Len(data.clothing_items[i].products)} :
         i \in 1..Len(data.clothing_items)}

\* An exception escaped the direct-link stage of the run, or its scraping.
LinkStageFailed == "link_extraction" \in pl_failures

\* C22: when the direct-link stage fails as a whole, the run still returns
\* a result without error that holds the cleaned structure as the cleaning
\* made it, and every product of it has the empty list as direct_links.
C22_LinkFailureLeavesEmptyLinks ==
  Stage = "Done" /\ LinkStageFailed =>
    /\ pl_result.error = Absent
    /\ pl_result.cleaned_data # Absent
    /\ WithoutLinks(pl_result.cleaned_data) =
         clean_search_results_for_frontend(pl_result.raw_results_data.v)
    /\ \A product \in ProductsOf(pl_result.cleaned_data) :
         product.direct_links = List(<<>>)

\* A run is done in which an exception escaped the stage, and a product of
\* the returned structure has no direct_links.
C22_Witness ==
  /\ Stage = "Done" /\ LinkStageFailed
  /\ pl_result.direct_links_error # Absent /\ pl_result.error = Absent
  /\ \E product \in ProductsOf(pl_result.cleaned_data) :
       product.direct_links = Absent

\* C22 for an exception that escapes the scraping and is caught by the
\* stage: every product has the empty list.
C22_ScrapingFailureLeavesEmptyLinks ==
  Stage = "Done" /\ LinkStageFailed /\ pl_result.direct_links_error = Absent =>
    /\ pl_result.error = Absent
    /\ WithoutLinks(pl_result.cleaned_data) =
         clean_search_results_for_frontend(pl_result.raw_results_data.v)
    /\ \A product \in ProductsOf(pl_result.cleaned_data) :
         product.direct_links = List(<<>>)

\* The stage a message to the hook announces, and the stage a call belongs to.
StageOfNotice(message) ==
  CASE message = "Identifying clothing items..." -> "Identifying"
    [] message = "Cleaning and organizing search results..." -> "Cleaning"
    [] message = "Finalizing results..." -> "Finalizing"
    [] message = "Search and extraction complete!" -> "Done"
    [] OTHER -> "LinkExtraction"

StageOfCall(function) ==
  CASE function \in {"create_search_query_gemini", "generate_content"} ->
         "Identifying"
    [] function = "search_shopping_item" -> "Searching"
    [] function = "clean_search_results_for_frontend" -> "Cleaning"
    [] function = "save_cleaned_results_to_json" -> "Finalizing"
    [] OTHER -> "LinkExtraction"

StageOfEntry(entry) ==
  IF entry.ev = "notify" THEN StageOfNotice(entry.what)
  ELSE StageOfCall(entry.what)

\* The positions of pl_log with a message to the hook.
Notices == {n \in 1..Len(pl_log) : pl_log[n].ev = "notify"}

\* The hook is told of the stage before any call of the stage is made.
AnnouncedBeforeWork(stage) ==
  \E n \in Notices :
    /\ StageOfEntry(pl_log[n]) = stage
    /\ \A m \in 1..Len(pl_log) :
         pl_log[m].ev = "call" /\ StageOfEntry(pl_log[m]) = stage => n < m

\* The messages to the hook never go back to an earlier stage.
NoticesInStageOrder ==
  \A n, m \in Notices :
    n < m => StageRank(StageOfEntry(pl_log[n])) <= StageRank(StageOfEntry(pl_log[m]))

\* C23: in a run with a progress hook that ends in Done, the hook is told of
\* each stage entered (identification, searching, cleaning, link extraction
\* when it runs, finalizing) before the work of that stage starts, and the
\* messages are in the order of the stages.
C23_HookToldOfEveryStage ==
  Stage = "Done" /\ pl_args.progress_callback =>
    /\ \A i \in 1..(Len(StagesEntered) - 1) :
         AnnouncedBeforeWork(StagesEntered[i])
    /\ NoticesInStageOrder

\* A run with a hook is done: the searches were made, and no message to the
\* hook announced them.
C23_Witness ==
  /\ Stage = "Done" /\ pl_args.progress_callback
  /\ \E n \in 1..Len(pl_log) : pl_log[n].what = "search_shopping_item"
  /\ \A n \in Notices : StageOfEntry(pl_log[n]) # "Searching"

\* C23 without the search stage: the hook is told of every other stage
\* before its work starts, in the order of the stages.
C23_HookToldApartFromSearching ==
  Stage = "Done" /\ pl_args.progress_callback =>
    /\ \A i \in 1..(Len(StagesEntered) - 1) :
         StagesEntered[i] # "Searching" => AnnouncedBeforeWork(StagesEntered[i])
    /\ NoticesInStageOrder

\* The run has cleaned its search results.
RunCleaned == pl_cleaned # Null

\* C24: what a run returns does not depend on the files it is asked to
\* write or on whether writing them works: the cleaned items and the summary
\* are those of the results the searches returned, whatever save_raw_json and
\* save_cleaned_json are, and the queries are the extracted ones.
C24_ResultIndependentOfSaving ==
  /\ RunCleaned =>
       WithoutLinks(pl_cleaned) =
         clean_search_results_for_frontend(pl_search_results.v)
  /\ Stage = "Done" =>
       /\ pl_result.search_queries = pl_queries
       /\ pl_result.cleaned_data = pl_cleaned

\* A run without save_raw_json is done: a search returned products, and the
\* returned structure has no clothing item.
C24_Witness ==
  /\ Stage = "Done" /\ ~pl_args.save_raw_json
  /\ \E i \in 1..Len(pl_search_results.v) :
       pl_search_results.v[i].shopping_results # Absent
  /\ pl_result.cleaned_data.clothing_items = <<>>

\* C24 for the cleaned file alone, and for runs that wrote the raw file.
C24_IndependentWhenRawFileWritten ==
  /\ RunCleaned /\ pl_result.raw_results_saved_to # Absent =>
       WithoutLinks(pl_cleaned) =
         clean_search_results_for_frontend(pl_search_results.v)
  /\ Stage = "Done" =>
       /\ pl_result.search_queries = pl_queries
       /\ pl_result.cleaned_data = pl_cleaned

\* The run has returned a result.
Returned == Stage \in {"Failed", "Done"}

\* C25: the result of a run, an error result or not, holds a conversation
\* context exactly when the run was started with enable_redo.
C25_ContextIffRedoEnabled ==
  Returned =>
    (pl_result.conversation_context # Absent <=> pl_args.enable_redo)

\* A run with enable_redo ended with the error of the CSV file, and its
\* result holds the context of the extraction.
C25_Witness ==
  /\ Stage = "Failed" /\ pl_args.enable_redo
  /\ "csv_write" \in pl_failures
  /\ pl_result.error # Absent
  /\ pl_result.conversation_context = pl_context
  /\ pl_context.conversation_history # Absent
(***************************************************************************)
(* Claims about the collections of a user                                  *)
(***************************************************************************)
\* Two rows of the user whose names are equal when case is ignored.
SameNameRows ==
  {pair \in collections \X collections :
     /\ pair[1].id # pair[2].id
     /\ Lower(pair[1].name) = Lower(pair[2].name)}

\* C27: after any sequence of creating a collection, renaming one and adding
\* to the wishlist, no two collections of the user have names that are equal
\* when compared case-insensitively.
C27_NamesUniqueIgnoringCase == SameNameRows = {}

\* The user created "my favorites" and then saved a product: the wishlist
\* made the default collection next to it.
C27_Witness ==
  /\ \E collection \in collections : collection.name = "my favorites"
  /\ \E collection \in collections :
       collection.name = "My Favorites" /\ collection.items # {}
  /\ saved_items # {}

\* What holds instead: names are unique as written, and two rows whose
\* names differ in case only are the default collection of the wishlist and
\* a collection that was there before it.
C27_UniqueApartFromDefault ==
  \A pair \in SameNameRows :
    /\ pair[1].name # pair[2].name
    /\ "My Favorites" \in {pair[1].name, pair[2].name}

=============================================================================
